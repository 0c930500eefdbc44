---------------------------- MODULE IoTaskRunner ----------------------------
(***************************************************************************)
(* IoTaskRunner (rust_io/io_task_runner.rs): one thread that runs posted   *)
(* tasks, delayed tasks and the callbacks of watched descriptors around an *)
(* epoll_wait, and any number of threads that post, watch, stop watching   *)
(* and shut it down.  An action is one critical section, one atomic access *)
(* or one system call.  pc says where a thread is inside the interface;    *)
(* `loop` says where the IO thread is in run_loop.  The IO thread calls    *)
(* the interface too, from the callbacks it runs.                          *)
(***************************************************************************)
EXTENDS FdWatch, Integers, Sequences, FiniteSets

CONSTANTS Clients,      \* threads other than the IO thread
          IO,           \* the IO thread
          Stoppers,     \* the clients that call shutdown
          Tasks,
          Delayed,      \* the tasks posted with post_delayed_task
          Delay,        \* their delay, in ticks of the clock
          TicksPerMs,   \* Instant is finer than the milliseconds of epoll_wait
          MaxMs,        \* i32::MAX
          FdOf,         \* the descriptor, mode, lifetime and watcher a controller
          ModeOf,       \* is used with
          Persistent,
          WatcherOf,
          Users,        \* the threads that use a controller
          MaxWatches,   \* bound: calls of watch_file_descriptor
          Conditions,   \* what the kernel may report of each descriptor
          WakeFd,       \* the eventfd
          NoTask, NoThread, NoEvent

Threads == Clients \cup {IO}

ASSUME IoAssumption ==
    /\ IO \notin Clients /\ Stoppers \subseteq Clients /\ NoThread \notin Threads
    /\ NoEntry \notin Entry /\ Unbound \notin [fd : Fds, generation : Nat]
    /\ Delayed \subseteq Tasks /\ Delay \in [Delayed -> Nat] /\ NoTask \notin Tasks
    /\ TicksPerMs \in Nat \ {0} /\ MaxMs \in Nat /\ MaxWatches \in Nat
    /\ FdOf \in [Controllers -> Fds] /\ ModeOf \in [Controllers -> Modes]
    /\ WatcherOf \in [Controllers -> Watchers] /\ Persistent \subseteq Controllers
    /\ Users \in [Controllers -> SUBSET Threads]
    /\ Conditions \in [Fds -> SUBSET {"in", "out", "hup"}] /\ WakeFd \notin Fds

VARIABLES tasks,        \* the queue of immediate tasks
          delayed,      \* the heap of delayed tasks
          table,        \* watches, epoll's interest list, the controllers
          gone,         \* the watchers whose last strong reference was dropped
          shutdown,     \* the flag
          handle,       \* thread_handle is Some
          joiner,       \* who holds the mutex of thread_handle
          signalled,    \* the eventfd is not zero
          readiness,    \* the state of each descriptor in the kernel
          loop, running, event, batch, timeout, since,   \* locals of run_loop
          pc, arg,      \* a thread inside the interface, and what it was called with
          fresh,        \* the tasks nobody has posted
          now

queueVars == <<tasks, delayed>>
watchVars == <<table, gone>>
stopVars == <<shutdown, handle, joiner>>
kernelVars == <<signalled, readiness, now>>
loopVars == <<loop, running, event, batch, timeout, since>>
callVars == <<pc, arg, fresh>>
vars == <<queueVars, watchVars, stopVars, kernelVars, loopVars, callVars>>

NoArg == [task |-> NoTask]

Init ==
    /\ tasks = <<>> /\ delayed = {}
    /\ table = EmptyTable /\ gone = {}
    /\ shutdown = FALSE /\ handle = TRUE /\ joiner = NoThread
    /\ signalled = FALSE /\ readiness = [fd \in Fds |-> {}] /\ now = 0
    /\ loop = "drain" /\ running = NoTask /\ event = NoEvent /\ batch = {}
    /\ timeout = -1 /\ since = 0
    /\ pc = [th \in Threads |-> "idle"] /\ arg = [th \in Threads |-> NoArg]
    /\ fresh = Tasks

Goto(th, l) == pc' = [pc EXCEPT ![th] = l]

Callbacks == {"task", "late", "read", "write"}

\* A thread may call the interface; the IO thread does so from a callback.
MayCall(th) == pc[th] = "idle" /\ (th = IO => loop \in Callbacks)

-----------------------------------------------------------------------------
(* post_task and post_delayed_task *)

\* The check of the flag; for a delayed task, the deadline is computed at once.
Post(th, t) ==
    /\ MayCall(th) /\ t \in fresh
    /\ fresh' = fresh \ {t}
    /\ IF shutdown
       THEN UNCHANGED <<pc, arg>>
       ELSE /\ Goto(th, "push")
            /\ arg' = [arg EXCEPT ![th] =
                  IF t \in Delayed THEN [task |-> t, deadline |-> now + Delay[t]]
                                   ELSE [task |-> t]]
    /\ UNCHANGED <<queueVars, watchVars, stopVars, kernelVars, loopVars>>

Enqueue(th) ==
    IF arg[th].task \in Delayed
    THEN delayed' = delayed \cup {arg[th]} /\ UNCHANGED tasks
    ELSE tasks' = Append(tasks, arg[th].task) /\ UNCHANGED delayed

\* A slip to detect: a delayed task is pushed without waking the loop.
PushSilently(th) ==
    /\ pc[th] = "push"
    /\ Enqueue(th)
    /\ Goto(th, IF arg[th].task \in Delayed THEN "idle" ELSE "wake")
    /\ arg' = [arg EXCEPT ![th] = NoArg]
    /\ UNCHANGED <<watchVars, stopVars, kernelVars, loopVars, fresh>>

Push(th) ==
    /\ pc[th] = "push"
    /\ Enqueue(th)
    /\ Goto(th, "wake")
    /\ arg' = [arg EXCEPT ![th] = NoArg]
    /\ UNCHANGED <<watchVars, stopVars, kernelVars, loopVars, fresh>>

\* wake(): a write to the eventfd.
Wake(th) ==
    /\ pc[th] = "wake"
    /\ signalled' = TRUE
    /\ Goto(th, "idle")
    /\ UNCHANGED <<queueVars, watchVars, stopVars, readiness, now, loopVars, arg, fresh>>

-----------------------------------------------------------------------------
(* Watching a descriptor *)

Watching == {"add", "mod", "insert"}

\* A controller is passed by &mut: no two calls use one controller at once.
MayUse(th, c) ==
    /\ MayCall(th) /\ th \in Users[c]
    /\ \A o \in Threads : pc[o] \in Watching => arg[o].ctl # c

\* stop_watching_file_descriptor, or the drop of a controller.
StopWatching(th, c) ==
    /\ MayUse(th, c)
    /\ table' = Stop(table, c)
    /\ UNCHANGED <<queueVars, gone, stopVars, kernelVars, loopVars, callVars>>

\* watch_file_descriptor first cancels the previous watch of the controller.
Watch(th, c) ==
    /\ MayUse(th, c) /\ table.next < MaxWatches /\ WatcherOf[c] \notin gone
    /\ table' = Stop(table, c)
    /\ Goto(th, "add")
    /\ arg' = [arg EXCEPT ![th] = [ctl |-> c]]
    /\ UNCHANGED <<queueVars, gone, stopVars, kernelVars, loopVars, fresh>>

\* A generation is drawn and EPOLL_CTL_ADD tried, outside the lock: it succeeds,
\* finds that epoll knows the descriptor, or is refused and the call returns false.
AddWatch(th) ==
    /\ pc[th] = "add"
    /\ LET c == arg[th].ctl IN
       \/ /\ table.interest[FdOf[c]] = {}
          /\ table' = Draw(table)
          /\ arg' = [arg EXCEPT ![th] = NoArg]
          /\ Goto(th, "idle")
       \/ /\ table' = IF table.interest[FdOf[c]] = {}
                      THEN Arm(Draw(table), FdOf[c], ModeOf[c]) ELSE Draw(table)
          /\ arg' = [arg EXCEPT ![th] = [ctl |-> c, generation |-> table.next]]
          /\ Goto(th, IF table.interest[FdOf[c]] = {} THEN "insert" ELSE "mod")
    /\ UNCHANGED <<queueVars, gone, stopVars, kernelVars, loopVars, fresh>>

\* A slip to detect: EEXIST is taken for success.
IgnoreExisting(th) ==
    /\ pc[th] = "mod"
    /\ Goto(th, "insert")
    /\ UNCHANGED <<queueVars, watchVars, stopVars, kernelVars, loopVars, arg, fresh>>

\* EPOLL_CTL_MOD fails if the descriptor was unregistered since the EEXIST.
ModWatch(th) ==
    /\ pc[th] = "mod"
    /\ LET c == arg[th].ctl IN
       IF table.interest[FdOf[c]] # {}
       THEN /\ table' = Arm(table, FdOf[c], ModeOf[c])
            /\ Goto(th, "insert") /\ UNCHANGED arg
       ELSE /\ arg' = [arg EXCEPT ![th] = NoArg]
            /\ Goto(th, "idle") /\ UNCHANGED table
    /\ UNCHANGED <<queueVars, gone, stopVars, kernelVars, loopVars, fresh>>

InsertWatch(th) ==
    /\ pc[th] = "insert"
    /\ LET c == arg[th].ctl IN
       table' = Insert(table, c, FdOf[c],
                       [watcher |-> WatcherOf[c], mode |-> ModeOf[c],
                        persistent |-> c \in Persistent,
                        generation |-> arg[th].generation])
    /\ arg' = [arg EXCEPT ![th] = NoArg]
    /\ Goto(th, "idle")
    /\ UNCHANGED <<queueVars, gone, stopVars, kernelVars, loopVars, fresh>>

\* The table holds a Weak reference only; a call in progress holds a strong one.
DropWatcher(x) ==
    /\ x \notin gone
    /\ event # NoEvent => event.entry.watcher # x
    /\ \A th \in Threads : pc[th] \in Watching => WatcherOf[arg[th].ctl] # x
    /\ gone' = gone \cup {x}
    /\ UNCHANGED <<queueVars, table, stopVars, kernelVars, loopVars, callVars>>

-----------------------------------------------------------------------------
(* shutdown *)

\* A slip to detect: the loop is told, but not woken.
BeginShutdownSilently(th) ==
    /\ pc[th] = "idle"
    /\ shutdown' = TRUE
    /\ Goto(th, "take_handle")
    /\ UNCHANGED <<queueVars, watchVars, handle, joiner, kernelVars, loopVars, arg, fresh>>

BeginShutdown(th) ==
    /\ pc[th] = "idle"
    /\ shutdown' = TRUE
    /\ Goto(th, "wake_stop")
    /\ UNCHANGED <<queueVars, watchVars, handle, joiner, kernelVars, loopVars, arg, fresh>>

WakeToStop(th) ==
    /\ pc[th] = "wake_stop"
    /\ signalled' = TRUE
    /\ Goto(th, "take_handle")
    /\ UNCHANGED <<queueVars, watchVars, stopVars, readiness, now, loopVars, arg, fresh>>

\* A slip to detect: the handle is taken first and joined without the mutex.
TakeHandleOnly(th) ==
    /\ pc[th] = "take_handle"
    /\ handle' = FALSE
    /\ Goto(th, IF handle THEN "join" ELSE "returned")
    /\ UNCHANGED <<queueVars, watchVars, shutdown, joiner, kernelVars, loopVars, arg, fresh>>

\* `if let Some(handle) = self.thread_handle.lock().unwrap().take()` holds the
\* mutex to the end of its body: a second caller waits for the first to have joined.
TakeHandle(th) ==
    /\ pc[th] = "take_handle" /\ joiner = NoThread
    /\ handle' = FALSE
    /\ joiner' = IF handle THEN th ELSE NoThread
    /\ Goto(th, IF handle THEN "join" ELSE "returned")
    /\ UNCHANGED <<queueVars, watchVars, shutdown, kernelVars, loopVars, arg, fresh>>

Join(th) ==
    /\ pc[th] = "join" /\ loop = "exited"
    /\ joiner' = NoThread
    /\ Goto(th, "returned")
    /\ UNCHANGED <<queueVars, watchVars, shutdown, handle, kernelVars, loopVars, arg, fresh>>

-----------------------------------------------------------------------------
(* run_loop *)

LoopGoto(l) == loop' = l

DrainTasks ==
    /\ loop = "drain"
    /\ IF tasks = <<>>
       THEN LoopGoto("delayed") /\ UNCHANGED <<tasks, running>>
       ELSE /\ running' = Head(tasks) /\ tasks' = Tail(tasks)
            /\ LoopGoto("task")
    /\ UNCHANGED <<delayed, watchVars, stopVars, kernelVars, event, batch, timeout,
                   since, callVars>>

\* The entries the heap may have on top: equal deadlines are not ordered.
Earliest == {d \in delayed : \A e \in delayed : d.deadline <= e.deadline}

RunDelayed ==
    /\ loop = "delayed"
    /\ \/ /\ \A d \in delayed : d.deadline > now
          /\ LoopGoto("check")
          /\ UNCHANGED <<delayed, running>>
       \/ \E d \in Earliest :
             /\ d.deadline <= now
             /\ delayed' = delayed \ {d}
             /\ running' = d.task
             /\ LoopGoto("late")
    /\ UNCHANGED <<tasks, watchVars, stopVars, kernelVars, event, batch, timeout,
                   since, callVars>>

\* The callback of a task returns.
EndTask ==
    /\ loop \in {"task", "late"} /\ pc[IO] = "idle"
    /\ running' = NoTask
    /\ LoopGoto(IF loop = "task" THEN "drain" ELSE "delayed")
    /\ UNCHANGED <<queueVars, watchVars, stopVars, kernelVars, event, batch, timeout,
                   since, callVars>>

CheckShutdown ==
    /\ loop = "check"
    /\ LoopGoto(IF shutdown THEN "exited" ELSE "timeout")
    /\ UNCHANGED <<queueVars, watchVars, stopVars, kernelVars, running, event, batch,
                   timeout, since, callVars>>

\* Milliseconds to the first deadline, rounded down: as_millis() truncates.
MsLeft == LET d == CHOOSE d \in Earliest : TRUE IN (d.deadline - now) \div TicksPerMs

SetTimeout(ms) ==
    /\ loop = "timeout"
    /\ timeout' = ms /\ since' = now
    /\ LoopGoto("wait")
    /\ UNCHANGED <<queueVars, watchVars, stopVars, kernelVars, running, event, batch,
                   callVars>>

\* A slip to detect: the cast to i32 wraps around.
ComputeTimeoutWrapping ==
    SetTimeout(IF delayed = {} THEN -1
               ELSE IF \E d \in delayed : d.deadline <= now THEN 0
               ELSE ((MsLeft + MaxMs + 1) % (2 * (MaxMs + 1))) - (MaxMs + 1))

\* A slip to detect: the time left is rounded up.
ComputeTimeoutUp ==
    SetTimeout(IF delayed = {} THEN -1
               ELSE IF \E d \in delayed : d.deadline <= now THEN 0
               ELSE IF MsLeft < MaxMs THEN MsLeft + 1 ELSE MaxMs)

\* -1 waits for ever; the value is at most i32::MAX.
ComputeTimeout ==
    SetTimeout(IF delayed = {} THEN -1
               ELSE IF \E d \in delayed : d.deadline <= now THEN 0
               ELSE IF MsLeft < MaxMs THEN MsLeft ELSE MaxMs)

\* What epoll has to report of a registered descriptor: a hang-up is reported
\* whether it was asked for or not.
Flags(fd) == IF table.interest[fd] = {} THEN {}
             ELSE readiness[fd] \cap (table.interest[fd] \cup {"hup"})

Reports == {[fd |-> fd, flags |-> Flags(fd)] : fd \in {f \in Fds : Flags(f) # {}}}
           \cup (IF signalled THEN {[fd |-> WakeFd, flags |-> {"in"}]} ELSE {})

TimedOut == timeout >= 0 /\ now >= since + timeout * TicksPerMs

\* epoll_wait returns; up to 64 events, here all of them.
EpollWait ==
    /\ loop = "wait" /\ (Reports # {} \/ TimedOut)
    /\ batch' = Reports /\ timeout' = -1 /\ since' = 0
    /\ LoopGoto("batch")
    /\ UNCHANGED <<queueVars, watchVars, stopVars, kernelVars, running, event, callVars>>

\* EINTR: a signal ends a wait that has nothing to report.
Interrupted ==
    /\ loop = "wait" /\ Reports = {}
    /\ timeout' = -1 /\ since' = 0
    /\ LoopGoto("drain")
    /\ UNCHANGED <<queueVars, watchVars, stopVars, kernelVars, running, event, batch,
                   callVars>>

EndBatch ==
    /\ loop = "batch" /\ batch = {}
    /\ LoopGoto("drain")
    /\ UNCHANGED <<queueVars, watchVars, stopVars, kernelVars, running, event, batch,
                   timeout, since, callVars>>

ReadWake(ev) ==
    /\ loop = "batch" /\ ev \in batch /\ ev.fd = WakeFd
    /\ signalled' = FALSE
    /\ batch' = batch \ {ev}
    /\ UNCHANGED <<queueVars, watchVars, stopVars, readiness, now, loop, running, event,
                   timeout, since, callVars>>

\* Under the lock: find the watch, decide what to call, remove a one-shot watch,
\* although nothing may be called (a hang-up alone, a watcher that is gone).
Dispatch(ev) ==
    /\ loop = "batch" /\ ev \in batch /\ ev.fd # WakeFd
    /\ batch' = batch \ {ev}
    /\ LET e == table.entry[ev.fd] IN
       IF e = NoEntry
       THEN UNCHANGED <<table, loop, event>>
       ELSE /\ table' = Extract(table, ev.fd)
            /\ IF /\ e.watcher \notin gone
                  /\ CanRead(e, ev.flags) \/ CanWrite(e, ev.flags)
               THEN /\ event' = [fd |-> ev.fd, entry |-> e,
                                 write |-> CanWrite(e, ev.flags)]
                    /\ LoopGoto(IF CanRead(e, ev.flags) THEN "read" ELSE "write")
               ELSE UNCHANGED <<loop, event>>
    /\ UNCHANGED <<queueVars, gone, stopVars, kernelVars, running, timeout, since,
                   callVars>>

\* on_file_can_read_without_blocking returns; on_file_can_write_without_blocking
\* of the same event follows, whatever the first one did.
EndRead ==
    /\ loop = "read" /\ pc[IO] = "idle"
    /\ IF event.write THEN LoopGoto("write") /\ UNCHANGED event
                      ELSE LoopGoto("batch") /\ event' = NoEvent
    /\ UNCHANGED <<queueVars, watchVars, stopVars, kernelVars, running, batch, timeout,
                   since, callVars>>

EndWrite ==
    /\ loop = "write" /\ pc[IO] = "idle"
    /\ LoopGoto("batch") /\ event' = NoEvent
    /\ UNCHANGED <<queueVars, watchVars, stopVars, kernelVars, running, batch, timeout,
                   since, callVars>>

LoopStep == \/ DrainTasks \/ RunDelayed \/ EndTask \/ CheckShutdown \/ ComputeTimeout
            \/ EpollWait \/ EndBatch \/ EndRead \/ EndWrite
            \/ \E ev \in batch : ReadWake(ev) \/ Dispatch(ev)

-----------------------------------------------------------------------------
(* The kernel and the clock *)

\* Data arrives or is read, buffers fill and drain; a hang-up is final.
ReadinessChanges(fd, x) ==
    /\ x \in Conditions[fd]
    /\ readiness' = [readiness EXCEPT ![fd] =
                        IF x \notin @ THEN @ \cup {x} ELSE IF x = "hup" THEN @ ELSE @ \ {x}]
    /\ UNCHANGED <<queueVars, watchVars, stopVars, signalled, now, loopVars, callVars>>

\* Time matters, and passes here, only while some deadline lies ahead.
Tick ==
    /\ \/ \E d \in delayed : d.deadline > now
       \/ \E th \in Threads : pc[th] = "push" /\ arg[th].task \in Delayed
                              /\ arg[th].deadline > now
    /\ now' = now + 1
    /\ UNCHANGED <<queueVars, watchVars, stopVars, signalled, readiness, loopVars,
                   callVars>>

-----------------------------------------------------------------------------

CallStep(th) == Push(th) \/ Wake(th) \/ AddWatch(th) \/ ModWatch(th) \/ InsertWatch(th)

StopStep(th) == WakeToStop(th) \/ TakeHandle(th) \/ Join(th)

\* The loop has ended and nobody is inside the interface.
Done == /\ loop = "exited" /\ \A th \in Clients : pc[th] \in {"idle", "returned"}
        /\ UNCHANGED vars

Next == \/ \E th \in Threads :
              \/ \E t \in Tasks : Post(th, t)
              \/ \E c \in Controllers : StopWatching(th, c) \/ Watch(th, c)
              \/ CallStep(th)
        \/ \E x \in Watchers : DropWatcher(x)
        \/ \E th \in Stoppers : BeginShutdown(th) \/ StopStep(th)
        \/ LoopStep \/ Interrupted
        \/ \E fd \in Fds, x \in Directions \cup {"hup"} : ReadinessChanges(fd, x)
        \/ Tick \/ Done

Spec == Init /\ [][Next]_vars

\* A call that was made proceeds, the IO thread runs, its callbacks return and
\* time passes.  Nobody has to call anything, and descriptors may stay as they are.
Fairness ==
    /\ \A th \in Threads : WF_vars(CallStep(th))
    /\ \A th \in Stoppers : WF_vars(StopStep(th))
    /\ WF_vars(LoopStep)
    /\ WF_vars(Tick)

FairSpec == Spec /\ Fairness

-----------------------------------------------------------------------------
(* Properties *)

CallPCs == {"idle", "push", "wake"} \cup Watching
StopPCs == {"wake_stop", "take_handle", "join", "returned"}
LoopPCs == {"drain", "delayed", "check", "timeout", "wait", "batch", "exited"}
           \cup Callbacks

DelayedArgs == [task : Delayed, deadline : Nat]

Args == [task : (Tasks \ Delayed) \cup {NoTask}] \cup DelayedArgs
        \cup [ctl : Controllers] \cup [ctl : Controllers, generation : Nat]

EventLocals == [fd : Fds, entry : Entry, write : BOOLEAN]

\* Every variable has its type; the timeout handed to epoll_wait is an i32 that is
\* negative only when it is -1.
TypeOK ==
    /\ tasks \in Seq(Tasks) /\ delayed \subseteq DelayedArgs
    /\ table \in Table /\ gone \subseteq Watchers
    /\ shutdown \in BOOLEAN /\ handle \in BOOLEAN
    /\ joiner \in Stoppers \cup {NoThread}
    /\ signalled \in BOOLEAN /\ readiness \in [Fds -> SUBSET {"in", "out", "hup"}]
    /\ now \in Nat /\ since \in Nat
    /\ loop \in LoopPCs /\ running \in Tasks \cup {NoTask}
    /\ event \in EventLocals \cup {NoEvent}
    /\ batch \subseteq [fd : Fds \cup {WakeFd}, flags : SUBSET {"in", "out", "hup"}]
    /\ timeout \in -1 .. MaxMs
    /\ pc \in [Threads -> CallPCs \cup StopPCs]
    /\ arg \in [Threads -> Args]
    /\ fresh \subseteq Tasks

\* Somebody has written, or is about to write, to the eventfd.
WakeComing == signalled \/ \E th \in Threads : pc[th] \in {"wake", "wake_stop"}

\* The loop never goes to sleep on a task it has not seen or on a shutdown it has
\* not noticed: from the point where it found the queue empty, or the flag false,
\* whatever arrives brings a write to the eventfd that has not been consumed.
NoLostWake ==
    /\ tasks # <<>> /\ loop \in {"delayed", "late", "check", "timeout", "wait"}
         => WakeComing
    /\ shutdown /\ loop \in {"timeout", "wait"} => WakeComing

\* Nor does it sleep past the deadline of a delayed task, also one that was pushed
\* after the timeout had been computed.
NeverOversleeps ==
    loop = "wait" =>
        \A d \in delayed :
            \/ WakeComing
            \/ /\ timeout >= 0
               /\ \/ timeout = 0
                  \/ since + timeout * TicksPerMs <= d.deadline

\* A call of shutdown that returned leaves no IO thread behind, although only one
\* of several callers finds the join handle.
JoinedMeansGone ==
    (\E th \in Stoppers : pc[th] = "returned") => loop = "exited"

\* What epoll watches is what the table says, for every descriptor that is not in
\* the middle of a registration: no entry waits for events that epoll was not asked
\* for, and no event comes for an entry that is gone.
WatchArmed ==
    \A fd \in Fds :
        \/ \E th \in Threads : pc[th] = "insert" /\ FdOf[arg[th].ctl] = fd
        \/ table.interest[fd] = IF table.entry[fd] = NoEntry THEN {}
                                ELSE Events(table.entry[fd].mode)

\* While the callback of a one-shot watch runs, the watch is gone already, so the
\* callback can register the descriptor again and keeps what it registered.
OneShotSpent ==
    event # NoEvent /\ ~event.entry.persistent =>
        \A fd \in Fds : table.entry[fd] # NoEntry =>
            table.entry[fd].generation # event.entry.generation

\* A watch ends when the loop takes it for an event or when the controller that
\* made it gives it up; a controller whose watch was replaced ends nobody else's.
OwnerEndsWatch ==
    [][\A fd \in Fds :
          table.entry[fd] # NoEntry /\ table'.entry[fd] = NoEntry =>
              \/ loop = "batch" /\ batch' # batch
              \/ \E c \in Controllers :
                    /\ table.ctl[c] = [fd |-> fd, generation |-> table.entry[fd].generation]
                    /\ table'.ctl[c] = Unbound]_vars

Queued(t) == (\E i \in DOMAIN tasks : tasks[i] = t) \/ (\E d \in delayed : d.task = t)

\* A task that was queued runs, unless the runner is shut down first.
TaskRuns == \A t \in Tasks : Queued(t) ~> (running = t \/ shutdown)

\* A call of shutdown returns.
ShutdownReturns == \A th \in Stoppers : pc[th] \in StopPCs ~> pc[th] = "returned"

\* The loop serves whoever it was woken for, however the wake-ups are merged into one
\* count of the eventfd.
WakesServed == TaskRuns /\ ShutdownReturns

Ready(fd, g) ==
    /\ table.entry[fd] # NoEntry /\ table.entry[fd].generation = g
    /\ table.entry[fd].watcher \notin gone
    /\ readiness[fd] \cap Events(table.entry[fd].mode) # {}

\* A watched descriptor that stays ready gets its callback.
WatchServed ==
    \A fd \in Fds, g \in 0 .. MaxWatches - 1 :
        Ready(fd, g) ~> (\/ ~Ready(fd, g) \/ shutdown
                         \/ event # NoEvent /\ event.fd = fd /\ event.entry.generation = g)

\* is_watching() tells whether the controller holds an active watch, in particular
\* it is false once a one-shot watch was removed.
IsWatchingHonest ==
    \A c \in Controllers : IsWatching(table, c) =>
        LET e == table.entry[table.ctl[c].fd] IN
        e # NoEntry /\ e.generation = table.ctl[c].generation
=============================================================================

# Verification of rust-task-runner

TLA+ models of this repository: a thread pool with sequences (`rust_task`), the I/O
loop (`rust_io`), the sockets and the TLS client (`rust_net`) built on it, and what is
written on top: timers, a task monitor, a file proxy and an event bus. TLC checks the
models on small instances, liveness included; TLAPS proves every safety property that
those runs check, and the refinement, for every size. Paths below are relative to the
root of the repository.

## 1. The system

| Component | State it keeps | Operations | Used by |
|---|---|---|---|
| `Sequence` (`rust_task/thread_pool/sequence.rs`) | `immediate_queue`, `delayed_queue` (min-heap by deadline and number), `next_sequence_num`, `has_worker` | `push_task`, `push_delayed_task`, `will_run_task`, `take_task`, `did_process_task`, `has_ready_tasks` | workers, runners |
| `ThreadGroup`, `PriorityQueue` (`thread_group.rs`, `priority_queue.rs`) | the queue of sources, the join handles, the `shutdown` flag, a condvar | `push_task_source`, `get_work`, `join_all`, `worker_loop` | runners, timer, pool |
| `DelayedTaskManager` (`delayed_task_manager.rs`) | a heap of (deadline, sequence), a flag, a condvar, the timer thread | `add_sequence`, `shutdown`, `timer_loop` | runners, pool |
| Pooled runners (`pooled_sequenced_task_runner.rs`, `pooled_parallel_task_runner.rs`) | the sequence they post to, or none | `post_task`, `post_delayed_task`, `post_task_and_reply` | everybody |
| `ThreadPool`, `TaskTracker` (`thread_pool.rs`, `task_tracker.rs`) | `shutdown_started`, `num_tasks_blocking_shutdown`, a condvar | `post_task`, `post_delayed_task`, the wrapper of callbacks, `shutdown` | the application |
| Token and default runner (`sequence_token.rs`, `sequenced_task_runner.rs`, `worker_thread.rs`) | two thread-locals of each thread | the guards around a task, `current_default`, `runs_tasks_in_current_sequence` | workers, `post_task_and_reply` |
| `RepeatingTimer`, `bind_once`, `bind_repeating` (`timer.rs`, `bind.rs`) | an `Arc<TimerInner>` or none, weak references in the pending ticks | `start`, `stop`, `schedule_next` | the application |
| `TaskMonitor` (`task_monitor.rs`) | one slot per worker, the watchdog thread | `register_worker`, `task_started`, `task_finished`, `wrap_task`, `watchdog_loop`, drop | workers, runners |
| `IoTaskRunner` (`rust_io/io_task_runner.rs`) | task queue, delayed heap, map of fd watches, eventfd, epoll | `post_task`, `post_delayed_task`, `watch_file_descriptor`, `unregister_fd`, `run_loop`, `shutdown` | sockets |
| `FileProxy` (`rust_io/file_proxy.rs`) | a path and the runner its operations are posted to | `read`, `write`, `append`, `read_all`, `write_all` | the application |
| `EventBus` (`rust_task/examples/event_bus.rs`) | the subscribers, the next id, its own sequence | `subscribe`, `unsubscribe`, `publish`, `flush` | the application |
| `SocketPosix` (`rust_net/socket_posix.rs`) | the fd, one pending connect, accept, read and write, their watch controllers | `connect`, `accept`, `read`, `write`, `cancel_*`, `close`, readiness callbacks | TCP wrappers, TLS |
| `TlsClientSocket` (`rust_net/tls_client_socket.rs`) | the rustls connection over a `StreamSocket` | handshake, read, write and flush pumps | the application |
| TCP wrappers (`tcp_*.rs`) | a `SocketPosix` | `connect`, `listen`, `disconnect`, forwarding | the application, TLS |

How they interact. A runner locks the sequence to push a task, then locks the
thread group to push the *sequence* and calls `notify_one`; a delayed post locks the
sequence, then the heap of the `DelayedTaskManager`, then notifies the timer thread,
which later pushes the sequence to the thread group. No two locks are ever held
together, so between any two of those critical sections every other thread can run.
A worker pops a sequence, claims it with one atomic swap of `has_worker`, takes a
task, calls it without a lock, stores `has_worker = false`, and only then looks
whether it has to push the sequence again. `ThreadPool::shutdown` first waits in the
tracker, then joins the workers, then stops the timer.

`IoTaskRunner` is one thread in a loop: run the posted tasks, run the delayed tasks
that are due, look at the shutdown flag, compute a timeout, wait in `epoll_wait`, and
call the watcher of every descriptor in the batch it returned. Whoever posts or shuts
down writes to an eventfd. A watch is three things that change in separate steps: the
registration in epoll, the map entry of the descriptor, and the user's
`FdWatchController`; a generation number ties an entry to the controller that made
it. `SocketPosix` lives on the IO thread: a call that cannot complete stores its
callback in a slot and arms a one-shot watch with the controller of its direction;
the readiness callback takes the slot and completes it. `TlsClientSocket` sits between
user code and the one pending read and the one pending write of such a socket: each of
its functions calls the next one last, and every round trip through the transport carries
the callback of the call along.

The clients of the runners share threads: a reply goes to the default runner that the
calling thread had at the time of the call, which is a thread-local set by guards around
each task; a timer is a chain of delayed tasks with weak references; the event bus and
the file proxy leave their order to their sequence.

What is hard here. The windows between those critical sections; duplicate entries of one
sequence in the queue (each post pushes one); the condvars, whose notifications are sent
without a lock and may be late, spurious or find nobody; callbacks that panic and leave the
sequence claimed; deadlines that pass between two statements; shutdown that begins at any of
these points, twice; callbacks that call back into the object that is calling them; bytes
that arrive and leave in pieces. `PROJECT.json` lists each hazard at its line with the
properties that would expose it.

What makes each component correct:

* sequences: tasks of one sequence run one at a time, in order, each at most once,
  no delayed task before its deadline, and no pending task is ever forgotten;
* thread group: no wake-up is lost; a queued sequence is eventually served;
* timer: it never sleeps past a deadline it knows;
* pool: the count of blocking tasks is exact, shutdown waits for exactly those tasks,
  returns, and leaves no thread behind;
* runners: a task sees the token and the default of its own runner and no other, and a
  reply comes back to where it was asked for;
* timer object: one chain of ticks per running timer, none that survives its stop;
* monitor: a report names who was over the threshold, all of them, and the drop returns;
* bus and files: every operation takes effect in the order of the calls;
* I/O loop: a post or a shutdown wakes it, it never sleeps past a deadline, table and
  epoll agree, a watch is ended only by its owner or by its own event;
* sockets: a stored callback has its watch, no watch outlives its descriptor, each
  open descriptor has one owner, a ready operation completes;
* addresses: the kernel sees the address that was passed, and the program the one that
  the kernel has;
* TLS: both byte streams arrive whole and in order, no callback is dropped or called
  twice, and every call ends that has the transport for itself.

## 2. Modules and how they relate to the code

### `ThreadGroup.tla`

One action per critical section, atomic instruction or condvar call of a thread;
`pc` says where a thread is between them.

| Code | Model |
|---|---|
| `SequenceInner` | `immediate[s]`, `delayed[s]`, `nextNum[s]`, `hasWorker[s]` |
| `ThreadGroupInner::priority_queue`, `shutdown` | `queue` (in the order of the pushes; `IsFirst` picks what the heap would pop), `shutdown` |
| `DelayedManagerInner`, the wait of the timer | `heap`, `stop`, `wakeAt` |
| the locals of a thread | `src`, `task` of a worker; `out`, what a thread is about to push |
| `Instant::now()` | `now`, advanced by `Tick` only while some deadline lies ahead |
| `post_task` | `PushTask` (sequence lock), `PushTaskSource` (group lock), `NotifyOne` |
| `post_delayed_task` | `ReadClock`, `PushDelayedTask`, `AddSequence`, `NotifyTimer` |
| `worker_loop` | `GetWork`, `WillRunTask`, `TakeTask`, `Callback` or `Panic`, `PostReply`, `ReleaseSequence`, `CheckMore`, then the push |
| `timer_loop` | `TimerLoop`, `TimerTimeout`, `TimerSpuriousWake` |
| `join_all`, `DelayedTaskManager::shutdown` | `JoinAll` ... `JoinTimer` |

`post_task_and_reply` wraps the callback so that its last act is to post the reply:
`Reply[t]` names that task, and the worker passes through the post while it still
owns its sequence. A parallel runner, and `ThreadPool::post_task`, give every task a
sequence of its own; an instance expresses that through `SequenceOf`. The queue
breaks ties of priority by the instant of the push; two pushes at exactly the same
`Instant` are taken in the order of the lock. Left out here: the thread-local token and
default runner (`TaskRunners`), the wrapper of the metrics (`TaskMonitor`), and
`thread_policy`, which no code reads.

### `SequencedRunner.tla`

What `SequencedTaskRunner` promises, without threads, locks or queues of sequences: a
FIFO of tasks, a set of tasks with deadlines that move into the FIFO once expired, in
deadline order, and at most one running task per sequence. `ThreadGroup` implements
it under the mapping of `Runner` (a task runs while a worker holds it, the panicked
ones for ever).

### `ThreadPool.tla`

The admission decision of `TaskTracker::will_post_task`, the wrapper of
`ThreadPool::wrap` (`CheckSkip`, `Run`, `AfterRunTask`), and all of `shutdown` with
several concurrent callers. The scheduler, verified by the module above, is reduced
to a set of ready tasks; the timer to a set of waiting ones. Tasks in `Direct` were
posted with `ThreadPool::post_task` or `post_delayed_task`; the others went through a
runner, which consults no tracker. The posters are threads of their own, as every
post of a callback is also the post of some thread.

### `TaskRunners.tla`, `RepeatingTimer.tla`, `EventBus.tla`, `FileProxy.tla`, `RunnerClients.tla`

`TaskRunners` takes what `ThreadGroup` implements as given: one task of a runner at a
time, in order (`fifo`, `later`, `run`). What it adds is what a task sees of its thread:
`token` and `default`, set by `Start` (`ScopedToken`, `DefaultHandle`) and reset by
`Restored`; the weak reference of a sequence to its runner (`HasRunner`); and
`post_task_and_reply`, whose reply goes to `default[c]`. A runner lives as long as one of
its owners: a task with a reply for it, until its closure ends (`PostReply`, then
`EndTask`), a thread whose default it is (both in `Captured`), or the application
(`Owned`; the bus owns its own). A reply that waits owns nothing, so it may start on a
sequence whose runner is gone, and then has no default.

| Code | Model |
|---|---|
| `RepeatingTimer::inner` | `active`, the number of the current `TimerInner`; 0 for `None` |
| `start`, `stop` and the drop of the timer | `TimerStart`, `StartSchedules`, `StartReturns`; `TimerStop` |
| a tick: `Weak::upgrade`, `schedule_next`, the callback bound by `bind_repeating` | `TickBegin`, `TickSchedules`, `TickCalls`, `TickReturns` |
| `BusState::subscribers`, `next_id` | `subscribers`, `nextId` |
| `subscribe` draws an id, then posts | `Subscribe`, `SubscribePosts` |
| the tasks of the bus | `BusUpdate`, `BusDispatch`, `Deliver`, `FlushDone` |
| a `FileProxy` operation: the post, open, transfer, close, the reply | `FileCall`, `FileOpen`, `Transfer`, `FileClose` or `FileWhole`, `FileReply`, `FileCallback` |

`RunnerClients` puts the three on one set of runners, with callbacks that call any
interface (`at = "user"`). The event bus is an example of the repository, but one with a
contract of its own at the head of its file, and the only code that uses weak binding,
ordering and copied callbacks together. The histories `ledger` and `expected` compute what
the order of the posts alone promises. The content of a file is the number of the operation
that changed it last, and a result is that number, or nothing for an error; offsets,
lengths and error numbers are left out.

### `TaskMonitor.tla`

Slots, the wrapper around a callback, the watchdog's wait and scan, and the drop. Times
are relative: `slot` holds the ticks since the stored start, `since` the ticks since the
watchdog read its clock, so that no bound on the clock is needed and `Elapsed` is the
saturating difference of the two. The lock on the list of slots is held during a scan
(`RegisterWorker` waits); the loads of the slots are separate steps. The durations in
`TaskMetrics` are left out.

### `FdWatch.tla`, `IoTaskRunner.tla`

`FdWatch` has the watches as data, a record `table` of the map (`entry`), what epoll
was told (`interest`), the controllers (`ctl`) and the generation counter (`next`),
with one operator per critical section or system call. `IoTaskRunner` adds the threads:

| Code | Model |
|---|---|
| `tasks`, `delayed_tasks`, `watches`, `shutdown`, `thread_handle` | `tasks`, `delayed`, `table.entry`, `shutdown`, `handle` and `joiner` (who holds its mutex) |
| the eventfd, epoll's interest list, the state of descriptors | `signalled`, `table.interest`, `readiness` |
| `FdWatchController` | `table.ctl[c]`, `Unbound` while `runner` is `None` |
| `Weak<dyn FdWatcher>` that no longer upgrades | `gone` |
| `post_task`, `post_delayed_task` | `Post` (flag, deadline), `Push`, `Wake` |
| `watch_file_descriptor` | `Watch` (stops the old watch), `AddWatch`, `ModWatch`, `InsertWatch` |
| `stop_watching_file_descriptor`, drop of a controller | `StopWatching` |
| `shutdown` | `BeginShutdown`, `WakeToStop`, `TakeHandle`, `Join` |
| `run_loop` | `loop` says where it is: `DrainTasks`, `RunDelayed`, `CheckShutdown`, `ComputeTimeout`, `EpollWait` or `Interrupted` (EINTR), `ReadWake`, `Dispatch`, `EndRead`, `EndWrite` |

The IO thread has a `pc` too: inside a callback it may call the interface like any
other thread. The clock has `TicksPerMs` ticks per millisecond, so that the
truncation of the timeout is visible, and `MaxMs` stands for `i32::MAX`. Left out: the
monitor, the limit of 64 events per batch (epoll reports the rest at the next wait),
failures of `epoll_wait` other than EINTR, and wraparound of the generation.

### `SocketPosix.tla`

The sockets over the same `FdWatch` table, with the kernel's `role` and `readiness` of each
descriptor, so that a number can be closed and given out again. Every call is one step,
since all of them happen on the IO thread (line 36 of `socket_posix.rs`); what interleaves
are tasks, callbacks, the rest of the batch and the kernel. The loop is reduced to
`EpollWait`, `Dispatch` and `EndBatch`; posting and waking are the business of the module
above. What the callers are assumed to do is in the guards: `MayStart` (connect first, wait
for its callback; one direction at a time unless `FullDuplex`; no start on a descriptor with
an undelivered event unless `Eager`), `Open` (not twice) and `Cancel` (not the other kind of
operation). A read or write that completes leaves it open whether more is there. Left out:
buffers and the error values.

### `TcpSockets.tla`, `SocketAddress.tla`

`TcpListen` and `TcpConnect` are the calls of several system calls, with the failure of a
later one: the descriptor then stays with the socket. What is forwarded comes from
`SocketPosix` under its own name; `Disconnect` is the end of a wrapper. Socket options
change nothing that a property tells apart.

`SocketAddress` is what `syscall_bind`, `syscall_connect` and `getsockname_addr` do to an
address: integers of 16 bits (an IPv4 address is two of them), their bytes in memory on a
host of either order, and what the kernel reads there. An IPv6 address is opaque, as the
code copies its octets; its flow label and zone are replaced by zero.

### `TlsClientSocket.tla`

A byte is its number in the stream. `conn` is what rustls keeps: bytes to send, the
deframer, records processed, plaintext, an error. `run` is the function that the IO
thread is about to enter with the callback it carries; `reading` and `writing` are the
callbacks that the transport holds, one of each, in the slots of a `SocketPosix`. That
socket has one watch for both slots (`sock_duplex`), so the callback that waits beside
another one may never come: the invariants hold for any transport, and `FairSpec`
promises callbacks only where a `SocketPosix` gives them, to a call that is under way alone
(`OneAtATime`) and to the close_notify, whose write arms the watch last (`ArmedLast`).

| Code | Model |
|---|---|
| `handshake`, `read`, `write`, `disconnect` | `Handshake`, `Read`, `Write`, `Disconnect` with `HangUp` |
| `flush_pending`, `write_all` | `FlushPending`, `WriteAll`, `Accepted` (partial writes) |
| `drive_handshake`, `feed_one`, its loop over `read_tls` and `process_new_packets` | `Flushed`, `FeedOne`, `Deliver`, `Process` |
| the attempt of `read` to take plaintext | `ReadPlain` |
| what rustls queues on its own | `Processed`: the client's part of the handshake, alerts, answers |
| the transport's callbacks | `ReadCallback`, `WriteCallback` |

rustls is external and reduced to records of a fixed size; the deframer holds less than
two of them, so that a chunk may not fit, and `read_tls` may refuse the rest of a chunk
while plaintext waits. `Overlap` = FALSE assumes of user code that it
does not disconnect while a call may be sending, and `PeerSends` that a peer asks for
nothing while a read and a write are under way at once: outside these two
cases the transport's only write slot is overwritten and a callback is lost, which the
hazard at `tls_client_socket.rs:200` describes.


### Instances

`MCThreadGroup.tla`, `MCThreadPool.tla`, `MCRunnerClients.tla`, `MCTaskMonitor.tla`,
`MCIoTaskRunner.tla`, `MCTcpSockets.tla`, `MCSocketPosix.tla` and `MCTlsClientSocket.tla`
are the modules that TLC checks; the modules named `..._proofs.tla`, one for each of
`ThreadGroup`, `ThreadPool`, `RunnerClients`, `TaskMonitor`, `IoTaskRunner`,
`TcpSockets`, `SocketAddress` and `TlsClientSocket`, hold the theorems. Definitions
commented "A slip to detect" are plausible bugs: each property of each passing run fails
when the definition after the slip is replaced by it.

## 3. Runs

| Run | Instance | Properties |
|---|---|---|
| `sched` | 2 workers, 1 client, 4 tasks of one sequence: an immediate one, its reply, delays of 0 and 1, shutdown at any point | type invariant, `MutualExclusion`, `HasWorkerExact`, `NoLostTask`, `NoSleepOnWork` (both condvars), and the refinement `ImplementsRunner` |
| `live` | 2 workers, 1 client, 2 sequences of different priority, a delayed task, a panic, under `FairSpec` | `EveryTaskRuns`, `ShutdownReturns` |
| `pool` | 2 workers, 1 poster, 2 callers of shutdown, tasks of all behaviours, one delayed, one that may panic, one posted past the tracker | type invariant, `CountExact`, `BlockShutdownHonoured`, `QuietAfterShutdown`, `BlockingTasksFinish`, `ShutdownReturns` |
| `pool_runner` | a `BlockShutdown` task posted through a runner | `AllBlockShutdownFinish` violated, see below |
| `clients` | 1 worker, the IO thread, 1 application thread, 4 calls in all of any interface, two pooled runners and the `IoTaskRunner` | type invariant, `EnvironmentExact`, `TimerSound`, `BusInOrder`, `FilesInOrder`, `ClientsServed` |
| `monitor` | 2 workers, a threshold of 2 ticks, an interval of 1, scans that last up to 1 tick | type invariant, `ScanExact`, `MonitorLive` |
| `io_tasks` | 2 clients that both post and shut down, an immediate task, delays of 1 and 4 ticks at 2 ticks per millisecond, `MaxMs` = 1 | type invariant, `NoLostWake`, `NeverOversleeps`, `JoinedMeansGone`, `WakesServed` |
| `io_watch` | a persistent and a one-shot controller of one descriptor on the IO thread, a third controller used by two threads on a descriptor that hangs up, a watcher that may be dropped, 2 registrations | `WatchArmed`, `OneShotSpent`, `OwnerEndsWatch`, `WatchServed` |
| `io_stale` | a one-shot watch | `IsWatchingHonest` violated, see below |
| `tcp` | 2 TCP sockets, 2 descriptors, 3 callbacks that have to wait, one direction at a time | type invariant, `PendingArmed`, `DescriptorsOwned`, `OpCompletes` |
| `sock_duplex` | two `SocketPosix` with both directions at once | `PendingArmed` violated, see below |
| `tls` | 4 calls, 4 records of 2 bytes, 2 of them the handshake, chunks of 5 bytes, a deframer of 3 | type invariant, `BytesIntact`, `CallbackHeld`, `EveryCallEnds` |

Bounds. Two workers are what a race for one sequence needs; the timer thread, a worker
that posts a reply and a client post at once, and each post makes a duplicate queue entry
while another thread is between its two locks. A third of either adds interleavings of the
same pairs. Each task is posted at most once, so queues are bounded by the number of tasks.
Time stops advancing when no deadline lies ahead (`Tick`), which bounds `now` by the
largest delay plus the last post. Spurious wake-ups are always possible. Interchangeable
threads are symmetric in `sched` only.

In `io_tasks` one delay is shorter and one longer than the largest timeout, so the
clamp, a remainder that is not a whole millisecond and an early wake-up all occur; in
`io_watch` two registrations (`MaxWatches`) are one that is replaced and one that replaces
it, or a one-shot watch and its re-registration from its own callback, and a third repeats
one of these pairs. `MaxOps` = 3 in `tcp` is two operations in one batch and a third
started in the callback of the first. Operations that complete at once are not bounded.

In `clients` the calls are bounded by `MaxCalls` = 4 in all and `MaxEach` = 2 of one
interface that makes something new: two starts, a stop and a call from a tick; two
subscriptions or two events around an unsubscribe; two file operations with a reply each.
Chains of ticks are not bounded. In `monitor` a task can be one tick short of, at and over
the threshold, begin or end between the clock and its slot, and be reported again; ages
above `Oldest` decide nothing. In `tls` a record can be cut at any byte, a chunk of 5
holds two records and a half, more than the deframer takes, and two data records follow
the handshake, or one and the end.

Fairness. Weak fairness of each thread's steps: the operating system schedules every thread
that can run, a callback that was called returns (or panics), and time passes. A step that
waits for a lock needs no more than weak fairness because each critical section is one
action. Nothing obliges a client to post, anyone to call `shutdown`, a callback to panic or
a condvar to wake without a notification. For the I/O loop, a call that was begun proceeds,
the IO thread runs and its callbacks return; a wait is interrupted by signals only when it
has nothing to report, as the kernel returns events before it looks for signals. No fairness
is assumed of descriptors, of the dropping of watchers or of those who register them; for
`tcp` only the loop is fair. In `RunnerClients` each thread proceeds (`ThreadStep`: it goes
on with a call or a task, or takes up a task of some sequence), and of the sequences that
compete with the timer's, which alone never runs dry, none waits for ever (strong fairness
of `Take`), as the queue of the pool takes equal priorities in the order of the pushes. For
`tls` the pumps run, the transport calls back a call that is under way alone, as
`OpCompletes` of `tcp` gives it, and the peer plays its part of the handshake; nothing else
is asked of the peer. For `monitor` the watchdog runs, `on_hang` returns, time passes and a
drop that began goes on; workers may stay in a task for ever.

Liveness says where it ends. `EveryCallEnds` speaks of every handshake, every disconnect,
and the reads and writes of user code that has one of them under way at a time: beside
another one a call over a `SocketPosix` may wait for ever (`sock_duplex`). `ClientsServed`
counts the replies that are owed, and a caller without a default runner is owed none.
`EveryTaskRuns` and `ShutdownReturns` exclude a sequence that a panic wedged and a group
without workers (`thread_group.rs:200`): a caller of such a pool waits for ever.
`HangReported` ends when the watchdog has ended, and that can happen without a drop, because
the loop takes a spurious wake-up of its condvar for one (`task_monitor.rs:237`);
`WatchdogStays` states what the documentation of `HangInfo` suggests and is not checked.

Findings. `pool_runner`: `rust_task/README.md:34` promises that `shutdown()` blocks
until all `BlockShutdown` tasks finish, but the runners a pool creates hold no
`TaskTracker`, so tasks posted through them are neither counted nor skipped.
`io_stale`: the loop removes a one-shot watch without touching its controller, so
`is_watching()` stays true, against `io_task_runner.rs:67` and
`rust_task/docs/io_task_runner.md:158`. `sock_duplex`: reading and writing have a
controller each, as `io_task_runner.rs:43` advises, but there is one entry per
descriptor; arming one direction replaces the other, whose callback is never called.

## 4. Proofs

Every safety property of a passing run is stated by a theorem, for any number of threads,
tasks, descriptors, calls and records.

Assumptions about the constants are named in the modules that declare them, and TLC
evaluates them in the runs: functions have their domains, roles of threads are disjoint,
values such as `NoTask` are not tasks, bounds are natural numbers. The others are that the
tasks of the pool (`PoolAssumption`) and the threads of the group (`ThreadsAssumption`) are
finitely many; that a reply is one callback's (`ReplyAssumption`, an `FnOnce`); that a
millisecond has a tick (`IoAssumption`); that threshold and interval are not zero
(`MonitorAssumption`); that a record is not empty and the deframer holds one, but not two
(`TlsAssumption`); that a host has one of two byte orders (`OrderAssumption`).

Four theorems have hypotheses about the callers, the ones under which the runs check the
same property. `WatchArmedHolds` has `SharedOnIo`: controllers that share a descriptor are
used on the IO thread, as the two of a `SocketPosix` are (`socket_posix.rs:36`); from two
threads, the epoll call of one registration could come between the epoll call and the map
entry of the other. `PendingArmedHolds` has `Eager` = FALSE and `FullDuplex` = FALSE: the
run `sock_duplex` shows what happens without the second, and section 5 what happens without
the first. The two on streams and callbacks of TLS have `Overlap` = FALSE, see
`TlsClientSocket` above.

`ThreadGroup_proofs.tla`. `Typed` is `TypeOK` with `Control`, which says where each
kind of thread may be and what it holds there. `Exclusive` adds `HasWorkerExact` and
that a sequence has one owner at most: exclusion alone is not inductive, because a
worker that lost the race may not clear the flag only since the flag is exactly "owned
by somebody". From it follow `MutualExclusionHolds` and `HasWorkerExactHolds`.
`NoLostTaskHolds` needs the type invariant only, as `NoLostTask` names everybody who
may be responsible for a sequence at any point; its crux is that a worker that drops
its entry as `Disallowed` does so while another worker still has the sequence, and that
`CheckMore` looks at the queues after the flag was reset.

`NoSleepOnWorkHolds` counts: as long as a worker sleeps and the group is not shut down,
there are at least as many threads about to look or to notify as there are entries in the
queue. It is inductive with `Typed`; most steps are `Calm` (they leave the queue alone and
no such thread leaves its point), and each of the others moves one thread, so that the
counts differ by one. `ImplementsRunnerHolds` is the refinement, step by step. It needs
`Once`: a task is in one place (`Separate`) and there once (`Single`), a worker past the
callback has finished its task and one in it has not (`Ran`), a reply is posted by the end
of one callback (`ReplyOnce`), and the deadline of a task on its way to the sequence lies
its delay after some instant that has been (`Dated`).

`ThreadPool_proofs.tla`. `Lifecycle` says that each accepted task is in one place.
With it `CountExact` is inductive: each step adds or removes exactly the task it
counts. `Gate` adds that a caller past the tracker has seen zero and that the flag,
once set, stops the counting, so zero stays zero; `BlockShutdownHonoured`,
`NoLostNotification` and the absence of underflow follow. `Handles` follows the join
handles from the group to the caller that took them, and gives `QuietAfterShutdown`.

`IoTaskRunner_proofs.tla`. `Typed` is `TypeOK` with what a thread carries at each point
of a call. `NoLostWake` and `NeverOversleeps` are inductive with it: `WakeKept` says that
only the read of the eventfd takes a wake-up away, which happens inside a batch, when
the loop will look at its queues again; `TimeoutFits` says that a timeout rounded down
and clamped ends by the first deadline. `Joining` follows the mutex of the join handle,
which a caller holds while it joins, so a caller that finds no handle comes after the
join; `JoinedMeansGone` follows. `OwnerEndsWatch` follows from what the operators
of `FdWatch` do to an entry. `OneShotSpent` needs `Generations`, which gives each
generation one owner (an entry or a thread about to insert one) and keeps the
generation of the running event away from the threads; alone it is not inductive, as a
thread that drew a generation could otherwise insert it under the callback.
`WatchArmed` needs more: between `epoll_ctl` and the insertion, table and epoll disagree,
and `Armed` says what keeps the promise meanwhile. A thread that registers has its
controller to itself (`Registering`); while it does, a bound controller still refers to its
own descriptor (`Referring`); and once nobody registers for a descriptor, epoll is told
what its entry asks for (`Settled`).

`RunnerClients_proofs.tla`. `Shape` is the type invariant without its two counters, with
what a thread carries at each point. `Placed` says that each runner has the tasks that are
posted to it and runs one at a time. On these rest five theorems. `Env` adds to
`EnvironmentExact` that the IO thread keeps its own guards, which tasks there neither set
nor reset. A task may start without a default only because its runner has no owner;
`RunnerStaysGone` says that no step gives it one again, so what the task lacks it lacks
rightly until its end. `Files` follows an operation through four places, the queue of its
runner, the thread that runs it, the queue of the IO thread and the thread that answers it,
each of them in the order of the calls and all of them after the operations already answered
(`FileOrder`); what a read carries is then the number of the last change called before it
(`FileData`). `Timely` counts the ticks of an inner in all four places (`Chains`) and says
which inner may still have a callback in flight after its stop (`Lateness`). The counters of
owed replies and flushes are the number of tasks that have still to give one (`Owed`,
`Unflushed`), so none falls below zero: that completes `TypeOK`. `BusOrder` relates what the
tasks have done to what the posts promised: a chain through the waiting operations (`Leads`)
begins with the subscribers as they are and the deliveries made or under way, and ends with
the histories `ledger` and `expected`; a post extends it at its end, and a task that begins
takes its first link away.

`TaskMonitor_proofs.tla`. `ScanExact` is inductive with `SlotsHonest` (a slot says for how
long its callback has run) and `SuspectsKnown` (a slot that the scan would report now
belongs to a worker that was over the threshold when the clock was read).

`TcpSockets_proofs.tla`. `Sound` says that entry, controller and epoll agree; with it the
ownership of descriptors (`OwnInv`) is inductive for any callers. `ArmInv` adds that a
waiting call, the mode of its entry and the role of its descriptor fit together (`Fitting`)
and that an event still to be delivered is one that its entry waits for (`Undelivered`);
this is where the two hypotheses are used. `SocketWithinTcp` carries the theorems over to a
`SocketPosix` that is used without a wrapper.

`TlsClientSocket_proofs.tla`. `Control` says that a callback is in one place, belongs to a
call that has not returned, and what calls may be under way together. `Quiet` is the heart
of `CallbackHeld`: while the transport keeps a write, rustls has nothing to send, so nobody
replaces it. For `BytesIntact`, `InStream` follows the bytes from the transport through the
chunk and the deframer to the records, until a read has failed and none is left
(`NoMoreReads`), and `OutStream` those from rustls through the write
in flight to the wire, until an error or the disconnect gives them up; `Established` and
`Marks` relate both to the calls that have returned.

`SocketAddress_proofs.tla`. `BeTwice` and `NetworkOrder` are arithmetic on 16 bits, for
either byte order. From them follow `KernelSeesAddress` (what the kernel reads from the
`sockaddr` of `bind` and `connect` is the address that was passed, without flow label and
zone) and `LocalAddressIsBound` (`getsockname_addr` returns that address). The instance
evaluates both at the boundaries of the bytes (`AddressesSurvive`).

Model-checked only: liveness (`EveryTaskRuns`, `ShutdownReturns`, `BlockingTasksFinish`,
`ClientsServed`, `MonitorLive`, `WakesServed`, `WatchServed`, `OpCompletes`,
`EveryCallEnds`). It needs fairness and ENABLED, which are out of the prover's reach. The
three properties that a run shows to be violated have no theorem, of course.

## 5. What is not covered

Hazards without a property. `io_task_runner.rs:482`: an event of the batch may be for a
descriptor that a callback in front of it closed and another watch took over; the entry is
looked up by number, and no document says whether such a call may happen.
`socket_posix.rs:355`: an event that was in the batch before an operation was started
consumes the operation's one-shot watch; `Eager` = FALSE keeps it out of `tcp`.
`socket_posix.rs:431`, the addresses, is proved instead.

Behaviour that is modelled or known but has no property of its own:

* `shutdown` called from a callback makes a thread join itself (`thread_pool.rs:105`,
  `io_task_runner.rs:284`); the callers in the models are other threads.
* A `ContinueOnShutdown` post after the shutdown is accepted and never runs, although a
  comment in `rust_task/tests/thread_pool_integration.rs:321` expects a rejection.
* When an event is readable and writable, the write callback is called although the read
  callback stopped the watch (`io_task_runner.rs:508`).
* Tasks that keep posting tasks starve the rest of the IO loop (`io_task_runner.rs:405`);
  delayed tasks of one deadline come in any order (`:120`).
* A second `open` loses the first descriptor, `cancel_write` strands a connect, and a
  failing `epoll_ctl` goes unnoticed (`socket_posix.rs:111`, `:277`, `:301`); the guards of
  the model exclude them.
* A TLS read beside a write, over one `SocketPosix`, may never return; a `disconnect` of a
  TLS socket while a call is sending; a write that `rustls` refuses
  after a part of it was queued; an alert that waits for the next flush
  (`tls_client_socket.rs:234`, `:220`, `:129`).
* A socket whose last reference goes away on another thread (`socket_posix.rs:339`).

Not modelled: the other examples and the tests, which only use the crates; socket options;
the durations and counters of the metrics; the cryptography and the certificates of
rustls; documentation and the tooling under `.agents`.

## 6. Plan

All modules of the inventory are written and checked, and all safety properties of the
runs are proved. What is left:

1. Lemmas that several proofs share (counting in sequences, removal, the table of watches)
   in one place, and shorter proofs where they allow it.
2. `OneShotSpent` and `OwnerEndsWatch` for the table as `SocketPosix` uses it.
3. A property for the hazard at `io_task_runner.rs:482`, once it is documented which calls
   a callback may make for descriptors of its batch.

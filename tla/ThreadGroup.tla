---------------------------- MODULE ThreadGroup ----------------------------
(***************************************************************************)
(* The scheduling core of rust_task: Sequence (rust_task/thread_pool/      *)
(* sequence.rs), the PriorityQueue and ThreadGroup with its workers        *)
(* (priority_queue.rs, thread_group.rs), the DelayedTaskManager with its   *)
(* timer thread (delayed_task_manager.rs), and the runners that post to    *)
(* them (pooled_*_task_runner.rs).  Every action is one critical section,  *)
(* one atomic instruction or one condvar call of one thread, so all the    *)
(* interleavings the locks of the code permit are behaviours here.         *)
(*                                                                         *)
(* A task posted by PooledParallelTaskRunner or ThreadPool::post_task owns *)
(* a Sequence of its own: give it a sequence no other task maps to.        *)
(***************************************************************************)
EXTENDS Naturals, Sequences, SequencesExt, FiniteSets

CONSTANTS Workers,    \* the threads running worker_loop
          Clients,    \* threads that post tasks and are not workers
          Tasks,      \* the callbacks posted in a behaviour, each at most once
          Seqs,       \* the Sequence objects
          SequenceOf,      \* the sequence a task is posted to
          Delay,      \* the delay of a task given to post_delayed_task
          Delayed,    \* the tasks posted with post_delayed_task
          Reply,      \* the task a callback posts as its last act, or NoTask
          Panicky,    \* the tasks whose callback may panic
          Priority,   \* TaskTraits::priority of a sequence
          Timer,      \* the thread running timer_loop
          Owner,      \* the thread that shuts the pool down
          NoTask, NoSeq, NoTimeout

Replies == {Reply[t] : t \in Tasks} \ {NoTask}

ASSUME ConstantsAssumption ==
    /\ SequenceOf \in [Tasks -> Seqs]
    /\ Delayed \subseteq Tasks
    /\ Delay \in [Delayed -> Nat]
    /\ Reply \in [Tasks -> Tasks \cup {NoTask}]
    /\ Panicky \subseteq Tasks
    /\ Priority \in [Seqs -> Nat]
    /\ NoTask \notin Tasks /\ NoSeq \notin Seqs /\ NoTimeout \notin Nat
    /\ Timer \notin Workers \cup Clients
    /\ Owner \notin Workers \cup Clients \cup {Timer}
    /\ Workers \cap Clients = {}

ASSUME ThreadsAssumption == IsFiniteSet(Workers) /\ IsFiniteSet(Clients)

\* A reply is an FnOnce that one callback owns.
ASSUME ReplyAssumption ==
    \A t, u \in Tasks : Reply[t] = Reply[u] /\ Reply[t] # NoTask => t = u

Threads == Workers \cup Clients \cup {Timer, Owner}

VARIABLES immediate,    \* SequenceInner::immediate_queue
          delayed,      \* SequenceInner::delayed_queue
          nextNum,      \* SequenceInner::next_sequence_num
          hasWorker,    \* Sequence::has_worker
          queue,        \* ThreadGroupInner::priority_queue, oldest push first
          shutdown,     \* ThreadGroup::shutdown
          heap,         \* DelayedManagerInner::heap, oldest insertion first
          stop,         \* DelayedManagerInner::shutdown
          wakeAt,       \* when the timer's condvar wait times out
          pc,           \* where each thread is
          src,          \* the source a worker popped
          task,         \* the task a worker took from its source
          out,          \* what a thread is handing over to a queue or heap
          now,          \* Instant::now()
          posted,       \* history: the tasks a post call was made for
          finished      \* history: the tasks whose callback returned

seqVars == <<immediate, delayed, nextNum>>
dtmVars == <<heap, stop, wakeAt>>
vars == <<immediate, delayed, nextNum, hasWorker, queue, shutdown, heap, stop,
          wakeAt, pc, src, task, out, now, posted, finished>>

Nothing == [seq |-> NoSeq, task |-> NoTask, ready |-> 0]

\* Sequence::new
SequencesInit ==
    /\ immediate = [s \in Seqs |-> <<>>]
    /\ delayed = [s \in Seqs |-> {}]
    /\ nextNum = [s \in Seqs |-> 0]
    /\ hasWorker = [s \in Seqs |-> FALSE]

\* ThreadGroup::new
GroupInit ==
    /\ queue = <<>>
    /\ shutdown = FALSE
    /\ src = [w \in Workers |-> NoSeq]
    /\ task = [w \in Workers |-> NoTask]

\* DelayedTaskManager::new
TimerInit ==
    /\ heap = <<>>
    /\ stop = FALSE
    /\ wakeAt = NoTimeout

Init ==
    /\ SequencesInit /\ GroupInit /\ TimerInit
    /\ pc = [th \in Threads |-> CASE th \in Workers -> "get_work"
                                  [] th = Timer     -> "timer_loop"
                                  [] OTHER          -> "idle"]
    /\ out = [th \in Threads |-> Nothing]
    /\ now = 0
    /\ posted = {}
    /\ finished = {}

Goto(th, l) == pc' = [pc EXCEPT ![th] = l]

-----------------------------------------------------------------------------
(* Sequence *)

\* A slip to detect: without Reverse the heap pops the latest deadline first.
LatestFirst(a, b) == a.ready > b.ready \/ (a.ready = b.ready /\ a.num > b.num)

\* Order of the min-heap delayed_queue.
Before(a, b) == a.ready < b.ready \/ (a.ready = b.ready /\ a.num < b.num)

Expired(s) == {d \in delayed[s] : d.ready <= now}

\* The order flush_ready_delayed_tasks pops a set of expired tasks in.
FlushOrders(D) ==
    {o \in [1 .. Cardinality(D) -> D] :
        \A i, j \in DOMAIN o : i < j => Before(o[i], o[j])}

\* A slip to detect: only the immediate queue is looked at.
HasImmediateTasks(s) == immediate[s] # <<>>

HasReadyTasks(s) == immediate[s] # <<>> \/ Expired(s) # {}

\* post_task: thread th pushes t into its sequence.
PushTask(th, t) ==
    LET s == SequenceOf[t] IN
    /\ immediate' = [immediate EXCEPT ![s] = Append(@, t)]
    /\ nextNum' = [nextNum EXCEPT ![s] = @ + 1]
    /\ out' = [out EXCEPT ![th] = [seq |-> s, task |-> t, ready |-> now]]
    /\ posted' = posted \cup {t}
    /\ Goto(th, "push")
    /\ UNCHANGED <<delayed, hasWorker, queue, shutdown, dtmVars, src, task, now,
                   finished>>

\* post_delayed_task: the deadline is computed before the sequence is locked.
ReadClock(th, t) ==
    /\ out' = [out EXCEPT ![th] =
                  [seq |-> SequenceOf[t], task |-> t, ready |-> now + Delay[t]]]
    /\ posted' = posted \cup {t}
    /\ Goto(th, "insert")
    /\ UNCHANGED <<seqVars, hasWorker, queue, shutdown, dtmVars, src, task, now,
                   finished>>

PostTask(th, t) == IF t \in Delayed THEN ReadClock(th, t) ELSE PushTask(th, t)

PushDelayedTask(th) ==
    /\ pc[th] = "insert"
    /\ LET o == out[th] IN
       /\ delayed' = [delayed EXCEPT ![o.seq] = @ \cup
              {[task |-> o.task, ready |-> o.ready, num |-> nextNum[o.seq]]}]
       /\ nextNum' = [nextNum EXCEPT ![o.seq] = @ + 1]
    /\ Goto(th, "add")
    /\ UNCHANGED <<immediate, hasWorker, queue, shutdown, dtmVars, src, task, out,
                   now, posted, finished>>

\* A client calls post_task or post_delayed_task of a runner.
Post(c, t) ==
    /\ pc[c] = "idle"
    /\ t \notin posted \cup Replies
    /\ PostTask(c, t)

-----------------------------------------------------------------------------
(* Handing a sequence over to the thread group or to the timer *)

\* Where a thread continues when push_task_source or add_sequence returns: a
\* worker that still holds a task returns into the callback that posted.
Return(th) == CASE th = Timer    -> "timer_loop"
                [] th \in Workers -> IF task[th] = NoTask THEN "get_work" ELSE "clear"
                [] OTHER          -> "idle"

\* Slips to detect: the source is moved out before it is pushed, and a
\* notification is thought necessary only for a queue that was empty.
PushMovedOutSource(th) ==
    /\ pc[th] = "push"
    /\ out' = [out EXCEPT ![th] = Nothing]
    /\ queue' = Append(queue, out'[th].seq)
    /\ Goto(th, "notify")
    /\ UNCHANGED <<seqVars, hasWorker, shutdown, dtmVars, src, task, now, posted,
                   finished>>

PushNotifyIfEmpty(th) ==
    /\ pc[th] = "push"
    /\ queue' = Append(queue, out[th].seq)
    /\ out' = [out EXCEPT ![th] = Nothing]
    /\ Goto(th, IF queue = <<>> THEN "notify" ELSE Return(th))
    /\ UNCHANGED <<seqVars, hasWorker, shutdown, dtmVars, src, task, now, posted,
                   finished>>

\* push_task_source: the push under the lock, then notify_one.
PushTaskSource(th) ==
    /\ pc[th] = "push"
    /\ queue' = Append(queue, out[th].seq)
    /\ out' = [out EXCEPT ![th] = Nothing]
    /\ Goto(th, "notify")
    /\ UNCHANGED <<seqVars, hasWorker, shutdown, dtmVars, src, task, now, posted,
                   finished>>

Waiting == {w \in Workers : pc[w] = "waiting"}

NotifyOne(th) ==
    /\ pc[th] = "notify"
    /\ \/ /\ Waiting = {}
          /\ Goto(th, Return(th))
       \/ \E w \in Waiting :
             pc' = [pc EXCEPT ![th] = Return(th), ![w] = "get_work"]
    /\ UNCHANGED <<seqVars, hasWorker, queue, shutdown, dtmVars, src, task, out,
                   now, posted, finished>>

\* A slip to detect: the timer is notified only if it has no entry to wait for.
AddNotifyIfEmpty(th) ==
    /\ pc[th] = "add"
    /\ heap' = Append(heap, [seq |-> out[th].seq, ready |-> out[th].ready])
    /\ out' = [out EXCEPT ![th] = Nothing]
    /\ Goto(th, IF heap = <<>> THEN "notify_timer" ELSE Return(th))
    /\ UNCHANGED <<seqVars, hasWorker, queue, shutdown, stop, wakeAt, src, task,
                   now, posted, finished>>

\* add_sequence: the insertion under the lock, then notify_one, which only the
\* timer thread can be waiting for.
AddSequence(th) ==
    /\ pc[th] = "add"
    /\ heap' = Append(heap, [seq |-> out[th].seq, ready |-> out[th].ready])
    /\ out' = [out EXCEPT ![th] = Nothing]
    /\ Goto(th, "notify_timer")
    /\ UNCHANGED <<seqVars, hasWorker, queue, shutdown, stop, wakeAt, src, task,
                   now, posted, finished>>

WakeTimer(th, l) ==
    pc' = [pc EXCEPT ![th] = l,
                     ![Timer] = IF @ = "timer_wait" THEN "timer_loop" ELSE @]

NotifyTimer(th) ==
    /\ pc[th] = "notify_timer"
    /\ WakeTimer(th, Return(th))
    /\ UNCHANGED <<seqVars, hasWorker, queue, shutdown, dtmVars, src, task, out,
                   now, posted, finished>>

HandOver(th) == \/ PushDelayedTask(th) \/ AddSequence(th) \/ NotifyTimer(th)
                \/ PushTaskSource(th) \/ NotifyOne(th)

-----------------------------------------------------------------------------
(* worker_loop *)

\* The entry pop returns: the highest priority, among those the oldest push
\* (the sort key's ready_time is the Instant of the push).
IsFirst(i) == \A j \in DOMAIN queue :
                 \/ Priority[queue[j]] < Priority[queue[i]]
                 \/ Priority[queue[j]] = Priority[queue[i]] /\ i <= j

\* get_work: one pass of its loop, all under the lock; wait() releases it.
GetWork(w) ==
    /\ pc[w] = "get_work"
    /\ \/ /\ shutdown
          /\ Goto(w, "exited")
          /\ UNCHANGED <<queue, src>>
       \/ /\ ~shutdown
          /\ \E i \in DOMAIN queue :
                /\ IsFirst(i)
                /\ queue' = RemoveAt(queue, i)
                /\ src' = [src EXCEPT ![w] = queue[i]]
          /\ Goto(w, "will_run")
       \/ /\ ~shutdown
          /\ queue = <<>>
          /\ Goto(w, "waiting")
          /\ UNCHANGED <<queue, src>>
    /\ UNCHANGED <<seqVars, hasWorker, shutdown, dtmVars, task, out, now, posted,
                   finished>>

\* A condvar may wake without a notification.
SpuriousWake(w) ==
    /\ pc[w] = "waiting"
    /\ Goto(w, "get_work")
    /\ UNCHANGED <<seqVars, hasWorker, queue, shutdown, dtmVars, src, task, out,
                   now, posted, finished>>

\* A slip to detect: did_process_task is called even if the claim failed.
WillRunThenProcess(w) ==
    /\ pc[w] = "will_run"
    /\ hasWorker' = [hasWorker EXCEPT ![src[w]] = TRUE]
    /\ Goto(w, IF hasWorker[src[w]] THEN "clear" ELSE "take_task")
    /\ UNCHANGED <<seqVars, queue, shutdown, dtmVars, src, task, out, now, posted,
                   finished>>

\* will_run_task: swap has_worker; a sequence another worker owns is Disallowed
\* and its entry is dropped.
WillRunTask(w) ==
    /\ pc[w] = "will_run"
    /\ hasWorker' = [hasWorker EXCEPT ![src[w]] = TRUE]
    /\ \/ /\ hasWorker[src[w]]
          /\ src' = [src EXCEPT ![w] = NoSeq]
          /\ Goto(w, "get_work")
       \/ /\ ~hasWorker[src[w]]
          /\ Goto(w, "take_task")
          /\ UNCHANGED src
    /\ UNCHANGED <<seqVars, queue, shutdown, dtmVars, task, out, now, posted,
                   finished>>

\* take_task: flush the expired delayed tasks, then pop the front.
TakeTask(w) ==
    LET s == src[w] IN
    /\ pc[w] = "take_task"
    /\ delayed' = [delayed EXCEPT ![s] = @ \ Expired(s)]
    /\ \E o \in FlushOrders(Expired(s)) :
         LET q == immediate[s] \o [i \in DOMAIN o |-> o[i].task] IN
         \/ /\ q = <<>>
            /\ Goto(w, "clear")
            /\ UNCHANGED <<immediate, task>>
         \/ /\ q # <<>>
            /\ immediate' = [immediate EXCEPT ![s] = Tail(q)]
            /\ task' = [task EXCEPT ![w] = Head(q)]
            /\ Goto(w, "callback")
    /\ UNCHANGED <<nextNum, hasWorker, queue, shutdown, dtmVars, src, out, now,
                   posted, finished>>

\* The callback of post_task_and_reply runs the task and then posts the reply;
\* any other callback just returns.
Callback(w) ==
    /\ pc[w] = "callback"
    /\ finished' = finished \cup {task[w]}
    /\ Goto(w, IF Reply[task[w]] = NoTask THEN "clear" ELSE "reply")
    /\ UNCHANGED <<seqVars, hasWorker, queue, shutdown, dtmVars, src, task, out,
                   now, posted>>

\* A panic unwinds worker_loop and ends its thread: has_worker stays set.
Panic(w) ==
    /\ pc[w] = "callback" /\ task[w] \in Panicky
    /\ Goto(w, "dead")
    /\ UNCHANGED <<seqVars, hasWorker, queue, shutdown, dtmVars, src, task, out,
                   now, posted, finished>>

PostReply(w) == pc[w] = "reply" /\ PostTask(w, Reply[task[w]])

\* A slip to detect: has_worker is never reset.
KeepSequence(w) ==
    /\ pc[w] = "clear"
    /\ task' = [task EXCEPT ![w] = NoTask]
    /\ Goto(w, "check")
    /\ UNCHANGED <<seqVars, hasWorker, queue, shutdown, dtmVars, src, out, now,
                   posted, finished>>

\* did_process_task, first statement: release the sequence.
ReleaseSequence(w) ==
    /\ pc[w] = "clear"
    /\ hasWorker' = [hasWorker EXCEPT ![src[w]] = FALSE]
    /\ task' = [task EXCEPT ![w] = NoTask]
    /\ Goto(w, "check")
    /\ UNCHANGED <<seqVars, queue, shutdown, dtmVars, src, out, now, posted,
                   finished>>

\* did_process_task, the rest: under the lock, is there more to do?
CheckMore(w) ==
    /\ pc[w] = "check"
    /\ src' = [src EXCEPT ![w] = NoSeq]
    /\ \/ /\ HasReadyTasks(src[w])
          /\ out' = [out EXCEPT ![w] =
                        [seq |-> src[w], task |-> NoTask, ready |-> now]]
          /\ Goto(w, "push")
       \/ /\ ~HasReadyTasks(src[w])
          /\ Goto(w, "get_work")
          /\ UNCHANGED out
    /\ UNCHANGED <<seqVars, hasWorker, queue, shutdown, dtmVars, task, now, posted,
                   finished>>

\* A slip to detect: the queues are looked at before has_worker is reset.
CheckBeforeRelease(w) ==
    \/ /\ pc[w] = "clear"
       /\ task' = [task EXCEPT ![w] = NoTask]
       /\ out' = [out EXCEPT ![w] =
                     IF HasReadyTasks(src[w])
                     THEN [seq |-> src[w], task |-> NoTask, ready |-> now]
                     ELSE Nothing]
       /\ Goto(w, "check")
       /\ UNCHANGED <<seqVars, hasWorker, queue, shutdown, dtmVars, src, now,
                      posted, finished>>
    \/ /\ pc[w] = "check"
       /\ hasWorker' = [hasWorker EXCEPT ![src[w]] = FALSE]
       /\ src' = [src EXCEPT ![w] = NoSeq]
       /\ Goto(w, IF out[w] = Nothing THEN "get_work" ELSE "push")
       /\ UNCHANGED <<seqVars, queue, shutdown, dtmVars, task, out, now, posted,
                      finished>>

DidProcessTask(w) == ReleaseSequence(w) \/ CheckMore(w)

WorkerStep(w) == \/ GetWork(w) \/ WillRunTask(w) \/ TakeTask(w) \/ Callback(w)
                 \/ PostReply(w) \/ DidProcessTask(w)

-----------------------------------------------------------------------------
(* timer_loop *)

IsNext(i) == \A j \in DOMAIN heap :
                \/ heap[i].ready < heap[j].ready
                \/ heap[i].ready = heap[j].ready /\ i <= j

WaitUntil(t) == wakeAt' = t /\ Goto(Timer, "timer_wait") /\ UNCHANGED <<heap, out>>

\* One pass of timer_loop up to the release of its lock.
TimerLoop ==
    /\ pc[Timer] = "timer_loop"
    /\ \/ /\ stop
          /\ Goto(Timer, "exited")
          /\ UNCHANGED <<heap, wakeAt, out>>
       \/ /\ ~stop /\ heap = <<>>
          /\ WaitUntil(NoTimeout)
       \/ /\ ~stop
          /\ \E i \in DOMAIN heap :
                /\ IsNext(i)
                /\ \/ /\ heap[i].ready <= now
                      /\ heap' = RemoveAt(heap, i)
                      /\ out' = [out EXCEPT ![Timer] =
                            [seq |-> heap[i].seq, task |-> NoTask,
                             ready |-> heap[i].ready]]
                      /\ Goto(Timer, "push")
                      /\ UNCHANGED wakeAt
                   \/ /\ heap[i].ready > now
                      /\ WaitUntil(heap[i].ready)
    /\ UNCHANGED <<seqVars, hasWorker, queue, shutdown, stop, src, task, now,
                   posted, finished>>

TimerWakes(condition) ==
    /\ pc[Timer] = "timer_wait"
    /\ condition
    /\ Goto(Timer, "timer_loop")
    /\ UNCHANGED <<seqVars, hasWorker, queue, shutdown, dtmVars, src, task, out,
                   now, posted, finished>>

TimerTimeout == TimerWakes(wakeAt # NoTimeout /\ wakeAt <= now)
TimerSpuriousWake == TimerWakes(TRUE)

-----------------------------------------------------------------------------
(* ThreadPool::shutdown after the TaskTracker let it through: join_all, then *)
(* DelayedTaskManager::shutdown.                                             *)

OwnerStep(from, to) == pc[Owner] = from /\ Goto(Owner, to)

\* join_all sets the flag under the lock of the queue.
JoinAll ==
    /\ OwnerStep("idle", "notify_all")
    /\ shutdown' = TRUE
    /\ UNCHANGED <<seqVars, hasWorker, queue, dtmVars, src, task, out, now, posted,
                   finished>>

\* A slip to detect: join_all wakes a single worker.
NotifyOnlyOne ==
    /\ pc[Owner] = "notify_all"
    /\ pc' = [th \in Threads |->
                CASE th = Owner -> "join"
                  [] th \in Waiting /\ th = CHOOSE w \in Waiting : TRUE -> "get_work"
                  [] OTHER -> pc[th]]
    /\ UNCHANGED <<seqVars, hasWorker, queue, shutdown, dtmVars, src, task, out,
                   now, posted, finished>>

NotifyAll ==
    /\ pc[Owner] = "notify_all"
    /\ pc' = [th \in Threads |-> CASE th = Owner      -> "join"
                                   [] th \in Waiting -> "get_work"
                                   [] OTHER          -> pc[th]]
    /\ UNCHANGED <<seqVars, hasWorker, queue, shutdown, dtmVars, src, task, out,
                   now, posted, finished>>

JoinWorkers ==
    /\ OwnerStep("join", "stop_timer")
    /\ \A w \in Workers : pc[w] \in {"exited", "dead"}
    /\ UNCHANGED <<seqVars, hasWorker, queue, shutdown, dtmVars, src, task, out,
                   now, posted, finished>>

StopTimer ==
    /\ OwnerStep("stop_timer", "notify_stop")
    /\ stop' = TRUE
    /\ UNCHANGED <<seqVars, hasWorker, queue, shutdown, heap, wakeAt, src, task,
                   out, now, posted, finished>>

NotifyStop ==
    /\ pc[Owner] = "notify_stop"
    /\ WakeTimer(Owner, "join_timer")
    /\ UNCHANGED <<seqVars, hasWorker, queue, shutdown, dtmVars, src, task, out,
                   now, posted, finished>>

JoinTimer ==
    /\ OwnerStep("join_timer", "stopped")
    /\ pc[Timer] = "exited"
    /\ UNCHANGED <<seqVars, hasWorker, queue, shutdown, dtmVars, src, task, out,
                   now, posted, finished>>

Shutdown == \/ JoinAll \/ NotifyAll \/ JoinWorkers \/ StopTimer \/ NotifyStop
            \/ JoinTimer

-----------------------------------------------------------------------------

\* Time passes while some deadline lies ahead; later instants change nothing.
Tick ==
    /\ \/ \E s \in Seqs : \E d \in delayed[s] : d.ready > now
       \/ \E i \in DOMAIN heap : heap[i].ready > now
       \/ \E th \in Threads : out[th].ready > now
    /\ now' = now + 1
    /\ UNCHANGED <<seqVars, hasWorker, queue, shutdown, dtmVars, pc, src, task, out,
                   posted, finished>>

\* The program has returned from ThreadPool::shutdown.
Stopped == pc[Owner] = "stopped" /\ UNCHANGED vars

Next == \/ \E c \in Clients, t \in Tasks : Post(c, t)
        \/ \E th \in Threads : HandOver(th)
        \/ \E w \in Workers : WorkerStep(w) \/ Panic(w) \/ SpuriousWake(w)
        \/ TimerLoop \/ TimerTimeout \/ TimerSpuriousWake
        \/ Shutdown \/ Tick \/ Stopped

Spec == Init /\ [][Next]_vars

\* Threads that can run do run, callbacks return, and time passes.  Nothing
\* obliges a client to post, a callback to panic, a condvar to wake without a
\* notification, or the owner to start the shutdown.
Fairness ==
    /\ \A th \in Threads : WF_vars(HandOver(th))
    /\ \A w \in Workers : WF_vars(WorkerStep(w))
    /\ WF_vars(TimerLoop) /\ WF_vars(TimerTimeout) /\ WF_vars(Tick)
    /\ WF_vars(Shutdown /\ pc[Owner] # "idle")

FairSpec == Spec /\ Fairness

-----------------------------------------------------------------------------
(* Properties *)

PCs == {"idle", "insert", "add", "notify_timer", "push", "notify", "get_work",
        "waiting", "will_run", "take_task", "callback", "reply", "clear", "check",
        "exited", "dead", "timer_loop", "timer_wait", "notify_all", "join",
        "stop_timer", "notify_stop", "join_timer", "stopped"}

TasksOf(s) == {t \in Tasks : SequenceOf[t] = s}
DelayedTasks(s) == [task : TasksOf(s), ready : Nat, num : Nat]
Handovers == {Nothing} \cup
             [seq : Seqs, task : Tasks \cup {NoTask}, ready : Nat]

\* Every variable has its type; a sequence holds only its own tasks.
TypeOK ==
    /\ immediate \in [Seqs -> Seq(Tasks)]
    /\ \A s \in Seqs : immediate[s] \in Seq(TasksOf(s))
    /\ delayed \in [Seqs -> SUBSET [task : Tasks, ready : Nat, num : Nat]]
    /\ \A s \in Seqs : delayed[s] \subseteq DelayedTasks(s)
    /\ \A s \in Seqs : IsFiniteSet(delayed[s])
    /\ nextNum \in [Seqs -> Nat]
    /\ hasWorker \in [Seqs -> BOOLEAN]
    /\ queue \in Seq(Seqs)
    /\ shutdown \in BOOLEAN
    /\ heap \in Seq([seq : Seqs, ready : Nat])
    /\ stop \in BOOLEAN
    /\ wakeAt \in Nat \cup {NoTimeout}
    /\ pc \in [Threads -> PCs]
    /\ src \in [Workers -> Seqs \cup {NoSeq}]
    /\ task \in [Workers -> Tasks \cup {NoTask}]
    /\ out \in [Threads -> Handovers]
    /\ now \in Nat
    /\ posted \subseteq Tasks
    /\ finished \subseteq Tasks

\* Where each kind of thread can be, and what a worker holds there.
HandingOver == {"insert", "add", "notify_timer", "push", "notify"}
Holding == {"callback", "reply", "dead"}
Popped == {"will_run", "take_task", "check"}

WorkerControl(w) ==
    /\ pc[w] \in {"get_work", "waiting", "exited", "clear"} \cup Popped \cup Holding
                 \cup HandingOver
    /\ pc[w] \in {"get_work", "waiting", "exited"} => src[w] = NoSeq
    /\ pc[w] \in {"clear"} \cup Popped \cup Holding => src[w] \in Seqs
    /\ pc[w] \in HandingOver => (src[w] = NoSeq <=> task[w] = NoTask)
    /\ pc[w] \in Holding => task[w] # NoTask
    /\ pc[w] = "reply" => Reply[task[w]] # NoTask
    /\ pc[w] \in {"get_work", "waiting", "exited"} \cup Popped => task[w] = NoTask
    /\ task[w] # NoTask => src[w] = SequenceOf[task[w]]

Control ==
    /\ \A w \in Workers : WorkerControl(w)
    /\ \A c \in Clients : pc[c] \in {"idle"} \cup HandingOver
    /\ pc[Timer] \in {"timer_loop", "timer_wait", "push", "notify", "exited"}
    /\ pc[Owner] \in {"idle", "notify_all", "join", "stop_timer", "notify_stop",
                      "join_timer", "stopped"}
    /\ \A th \in Threads :
          /\ pc[th] \in {"insert", "add", "push"} => out[th] # Nothing
          /\ pc[th] = "insert" => out[th].task \in TasksOf(out[th].seq)

\* A worker owns the sequence it claimed from will_run_task until the first
\* store of did_process_task, and for ever if its callback panics.
Owns(w, s) == src[w] = s /\ pc[w] \notin {"will_run", "check"}

\* Tasks of one sequence never run concurrently: no two workers hold tasks of
\* the same sequence, whatever stale entries the priority queue contains.
MutualExclusion ==
    \A v, w \in Workers :
        /\ task[v] # NoTask /\ task[w] # NoTask
        /\ SequenceOf[task[v]] = SequenceOf[task[w]]
        => v = w

\* has_worker is set exactly while some worker owns the sequence, so a
\* Disallowed worker may forget its entry: the owner will look again.
HasWorkerExact ==
    \A s \in Seqs : hasWorker[s] <=> \E w \in Workers : Owns(w, s)

\* A sequence whose callback panicked keeps has_worker for ever.
Wedged(s) == \E w \in Workers : src[w] = s /\ pc[w] = "dead"

\* Somebody will still look at sequence s: a queue entry, a thread about to
\* push one, or a worker that has popped it and not yet checked it for more (one
\* that died in a callback never will: its sequence is wedged).
Responsible(s) ==
    \/ \E i \in DOMAIN queue : queue[i] = s
    \/ \E th \in Threads : pc[th] = "push" /\ out[th].seq = s
    \/ \E w \in Workers : src[w] = s

\* The timer has, or is about to get, an entry for sequence s and deadline r.
TimerResponsible(s, r) ==
    \/ \E i \in DOMAIN heap : heap[i].seq = s /\ heap[i].ready = r
    \/ \E th \in Threads : /\ pc[th] = "add"
                           /\ out[th].seq = s /\ out[th].ready = r

\* No task is stranded in its sequence: while a task waits in immediate_queue
\* somebody is responsible for the sequence, and while one waits in
\* delayed_queue the timer is, until the deadline has passed.
NoLostTask ==
    \A s \in Seqs :
        /\ immediate[s] # <<>> => Responsible(s)
        /\ \A d \in delayed[s] : \/ TimerResponsible(s, d.ready)
                                 \/ d.ready <= now /\ Responsible(s)

\* No wake-up of the workers' condvar is lost: while a worker sleeps, every
\* entry of the queue is matched by a worker on its way to get_work or by a
\* thread that is about to call notify_one.
At(l) == {th \in Threads : pc[th] = l}

NoLostWakeup ==
    ~shutdown /\ Waiting # {} =>
        Len(queue) <= Cardinality(At("get_work")) + Cardinality(At("notify"))

\* The timer never oversleeps: it waits past no deadline of its heap unless a
\* thread is about to notify it.
TimerArmed ==
    pc[Timer] = "timer_wait" =>
        \/ At("notify_timer") # {}
        \/ \A i \in DOMAIN heap : wakeAt # NoTimeout /\ wakeAt <= heap[i].ready

\* No thread of the pool sleeps on work that is its own to find: the workers on
\* entries of the queue, the timer on an earlier deadline.
NoSleepOnWork == NoLostWakeup /\ TimerArmed

\* A posted task runs to its end unless the pool is shut down, its sequence is
\* wedged by a panic or no worker survives.
EveryTaskRuns ==
    \A t \in Tasks :
        t \in posted ~> \/ t \in finished
                        \/ shutdown
                        \/ Wedged(SequenceOf[t])
                        \/ \A w \in Workers : pc[w] = "dead"

\* ThreadPool::shutdown returns once it started, panicked workers included.
ShutdownReturns == shutdown ~> pc[Owner] = "stopped"

\* The implementation of a sequence keeps the promise of SequencedRunner.
Held(s) == {task[w] : w \in {v \in Workers : src[v] = s /\ task[v] # NoTask}}

Runner == INSTANCE SequencedRunner WITH
    fifo    <- immediate,
    later   <- [s \in Seqs |-> {[task |-> d.task, ready |-> d.ready] : d \in delayed[s]}],
    running <- [s \in Seqs |-> Held(s)],
    started <- finished \cup UNION {Held(s) : s \in Seqs},
    clock   <- now

\* The threads of the pool together implement SequencedRunner: per sequence, first
\* in first out, one at a time, each task at most once, none before its deadline.
ImplementsRunner == Runner!Spec

=============================================================================

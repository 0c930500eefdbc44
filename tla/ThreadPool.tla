----------------------------- MODULE ThreadPool -----------------------------
(***************************************************************************)
(* ThreadPool and its TaskTracker (rust_task/thread_pool/thread_pool.rs,   *)
(* task_tracker.rs): which posts are accepted, what the wrapper around a   *)
(* callback does when a worker runs it, and how shutdown waits and joins.  *)
(* ThreadGroup and DelayedTaskManager, which have a module of their own    *)
(* (ThreadGroup), are here a set of ready tasks the workers choose from    *)
(* and a set of tasks the timer makes ready.                               *)
(***************************************************************************)
EXTENDS Integers, FiniteSets

CONSTANTS Workers,     \* threads running worker_loop
          Posters,     \* threads that post tasks
          Stoppers,    \* threads that call ThreadPool::shutdown
          Tasks,
          Behavior,    \* TaskTraits::shutdown_behavior of a task
          Direct,      \* tasks posted with ThreadPool::post_(delayed_)task; the
                       \* others go through a runner the pool created
          Delayed,     \* tasks posted with a delay
          Panicky,     \* tasks whose callback may panic
          NoTask

Behaviors == {"ContinueOnShutdown", "SkipOnShutdown", "BlockShutdown"}

ASSUME PoolAssumption ==
    /\ IsFiniteSet(Tasks) /\ NoTask \notin Tasks
    /\ Behavior \in [Tasks -> Behaviors]
    /\ Direct \subseteq Tasks /\ Delayed \subseteq Tasks /\ Panicky \subseteq Tasks
    /\ Workers \cap (Posters \cup Stoppers) = {} /\ Posters \cap Stoppers = {}

Threads == Workers \cup Posters \cup Stoppers

VARIABLES started,     \* TaskTrackerInner::shutdown_started
          numBlocking, \* TaskTrackerInner::num_tasks_blocking_shutdown
          waiting,     \* tasks the DelayedTaskManager holds
          ready,       \* tasks the ThreadGroup holds
          groupStop,   \* ThreadGroup::shutdown
          handles,     \* ThreadGroupInner::handles
          joining,     \* the handles a stopper took
          timerStop,   \* DelayedManagerInner::shutdown
          timerAlive,  \* the timer thread has not left timer_loop
          timerHandle, \* DelayedManagerInner::handle
          pc,
          task,        \* the task a poster posts or a worker runs
          verdict,     \* history: the phase in which a post was accepted
          finished     \* history: the tasks whose callback returned

groupVars == <<ready, groupStop, handles, joining>>
timerVars == <<waiting, timerStop, timerAlive, timerHandle>>
vars == <<started, numBlocking, groupVars, timerVars, pc, task, verdict, finished>>

Init ==
    /\ started = FALSE
    /\ numBlocking = 0
    /\ waiting = {} /\ ready = {}
    /\ groupStop = FALSE
    /\ handles = Workers
    /\ joining = [o \in Stoppers |-> {}]
    /\ timerStop = FALSE /\ timerAlive = TRUE /\ timerHandle = TRUE
    /\ pc = [th \in Threads |-> IF th \in Workers THEN "get_work" ELSE "idle"]
    /\ task = [th \in Workers \cup Posters |-> NoTask]
    /\ verdict = [t \in Tasks |-> "none"]
    /\ finished = {}

Goto(th, l) == pc' = [pc EXCEPT ![th] = l]

Returned == {o \in Stoppers : pc[o] = "returned"}

Phase == IF Returned # {} THEN "stopped" ELSE IF started THEN "stopping" ELSE "open"

Blocks(t) == Behavior[t] = "BlockShutdown"

-----------------------------------------------------------------------------
(* Posting *)

Accept(p, t) ==
    /\ verdict' = [verdict EXCEPT ![t] = Phase]
    /\ task' = [task EXCEPT ![p] = t]
    /\ Goto(p, "push")

\* A slip to detect: BlockShutdown tasks are accepted although shutdown has begun.
WillPostAnyBlocking(p, t) ==
    \/ /\ started /\ Behavior[t] = "SkipOnShutdown"
       /\ verdict' = [verdict EXCEPT ![t] = "rejected"]
       /\ UNCHANGED <<pc, task, numBlocking>>
    \/ /\ ~started \/ Behavior[t] # "SkipOnShutdown"
       /\ numBlocking' = IF Blocks(t) THEN numBlocking + 1 ELSE numBlocking
       /\ Accept(p, t)

\* A slip to detect: the task is counted before the decision.
CountThenDecide(p, t) ==
    /\ numBlocking' = IF Blocks(t) THEN numBlocking + 1 ELSE numBlocking
    /\ \/ /\ started /\ Behavior[t] # "ContinueOnShutdown"
          /\ verdict' = [verdict EXCEPT ![t] = "rejected"]
          /\ UNCHANGED <<pc, task>>
       \/ /\ ~started \/ Behavior[t] = "ContinueOnShutdown"
          /\ Accept(p, t)

\* will_post_task: decided and counted under the tracker's lock.
WillPostTask(p, t) ==
    \/ /\ started /\ Behavior[t] # "ContinueOnShutdown"
       /\ verdict' = [verdict EXCEPT ![t] = "rejected"]
       /\ UNCHANGED <<pc, task, numBlocking>>
    \/ /\ started /\ Behavior[t] = "ContinueOnShutdown"
       /\ Accept(p, t)
       /\ UNCHANGED numBlocking
    \/ /\ ~started
       /\ numBlocking' = IF Blocks(t) THEN numBlocking + 1 ELSE numBlocking
       /\ Accept(p, t)

\* ThreadPool::post_task and post_delayed_task.
PostTask(p, t) ==
    /\ pc[p] = "idle" /\ verdict[t] = "none" /\ t \in Direct
    /\ WillPostTask(p, t)
    /\ UNCHANGED <<started, groupVars, timerVars, finished>>

\* The runners of create_sequenced_task_runner and create_task_runner hold no
\* TaskTracker: they accept every task and wrap none.
RunnerPostTask(p, t) ==
    /\ pc[p] = "idle" /\ verdict[t] = "none" /\ t \notin Direct
    /\ Accept(p, t)
    /\ UNCHANGED <<started, numBlocking, groupVars, timerVars, finished>>

\* The rest of a post: hand the task to the thread group or to the timer.
Push(p) ==
    /\ pc[p] = "push"
    /\ IF task[p] \in Delayed
       THEN waiting' = waiting \cup {task[p]} /\ UNCHANGED ready
       ELSE ready' = ready \cup {task[p]} /\ UNCHANGED waiting
    /\ task' = [task EXCEPT ![p] = NoTask]
    /\ Goto(p, "idle")
    /\ UNCHANGED <<started, numBlocking, groupStop, handles, joining, timerStop,
                   timerAlive, timerHandle, verdict, finished>>

-----------------------------------------------------------------------------
(* Workers and the timer *)

GetWork(w) ==
    /\ pc[w] = "get_work"
    /\ \/ /\ groupStop
          /\ Goto(w, "exited")
          /\ UNCHANGED <<ready, task>>
       \/ /\ ~groupStop
          /\ \E t \in ready :
                /\ ready' = ready \ {t}
                /\ task' = [task EXCEPT ![w] = t]
                /\ Goto(w, IF t \in Direct THEN "check_skip" ELSE "run")
    /\ UNCHANGED <<started, numBlocking, groupStop, handles, joining, timerVars,
                   verdict, finished>>

\* The wrapper first asks is_shutdown_started; a SkipOnShutdown task is dropped.
CheckSkip(w) ==
    /\ pc[w] = "check_skip"
    /\ IF started /\ Behavior[task[w]] = "SkipOnShutdown"
       THEN Goto(w, "get_work") /\ task' = [task EXCEPT ![w] = NoTask]
       ELSE Goto(w, "run") /\ UNCHANGED task
    /\ UNCHANGED <<started, numBlocking, groupVars, timerVars, verdict, finished>>

\* A slip to detect: after_run_task is called for every task.
RunThenCountAll(w) ==
    /\ pc[w] = "run"
    /\ finished' = finished \cup {task[w]}
    /\ Goto(w, "after_run")
    /\ UNCHANGED <<started, numBlocking, groupVars, timerVars, task, verdict>>

\* The callback; the wrapper counts a BlockShutdown task down after it.
Run(w) ==
    /\ pc[w] = "run"
    /\ finished' = finished \cup {task[w]}
    /\ IF task[w] \in Direct /\ Blocks(task[w])
       THEN Goto(w, "after_run") /\ UNCHANGED task
       ELSE Goto(w, "get_work") /\ task' = [task EXCEPT ![w] = NoTask]
    /\ UNCHANGED <<started, numBlocking, groupVars, timerVars, verdict>>

\* A panic skips after_run_task and ends the worker.
Panic(w) ==
    /\ pc[w] = "run" /\ task[w] \in Panicky
    /\ Goto(w, "dead")
    /\ UNCHANGED <<started, numBlocking, groupVars, timerVars, task, verdict,
                   finished>>

\* A slip to detect: nobody is notified when the count reaches zero.
AfterRunQuietly(w) ==
    /\ pc[w] = "after_run"
    /\ numBlocking' = numBlocking - 1
    /\ task' = [task EXCEPT ![w] = NoTask]
    /\ Goto(w, "get_work")
    /\ UNCHANGED <<started, groupVars, timerVars, verdict, finished>>

\* after_run_task: decrement and notify_all under the tracker's lock.
AfterRunTask(w) ==
    /\ pc[w] = "after_run"
    /\ numBlocking' = numBlocking - 1
    /\ task' = [task EXCEPT ![w] = NoTask]
    /\ pc' = [th \in Threads |->
                CASE th = w -> "get_work"
                  [] numBlocking' = 0 /\ pc[th] = "wait" -> "recheck"
                  [] OTHER -> pc[th]]
    /\ UNCHANGED <<started, groupVars, timerVars, verdict, finished>>

WorkerStep(w) == GetWork(w) \/ CheckSkip(w) \/ Run(w) \/ AfterRunTask(w)

\* The timer pushes a task whose deadline has passed.
Fire(t) ==
    /\ timerAlive /\ ~timerStop /\ t \in waiting
    /\ waiting' = waiting \ {t}
    /\ ready' = ready \cup {t}
    /\ UNCHANGED <<started, numBlocking, groupStop, handles, joining, timerStop,
                   timerAlive, timerHandle, pc, task, verdict, finished>>

TimerExit ==
    /\ timerAlive /\ timerStop
    /\ timerAlive' = FALSE
    /\ UNCHANGED <<started, numBlocking, groupVars, waiting, timerStop, timerHandle,
                   pc, task, verdict, finished>>

-----------------------------------------------------------------------------
(* ThreadPool::shutdown: TaskTracker::shutdown, join_all, then the timer *)

\* TaskTracker::shutdown up to its condvar loop: the flag is set under the lock
\* that WillPostTask takes, so nothing is counted from here on.
BeginShutdown(o) ==
    /\ pc[o] = "idle"
    /\ started' = TRUE
    /\ Goto(o, IF numBlocking = 0 THEN "join_all" ELSE "recheck")
    /\ UNCHANGED <<numBlocking, groupVars, timerVars, task, verdict, finished>>

\* A slip to detect: shutdown joins the workers without having waited.
AwaitNothing(o) ==
    /\ pc[o] = "recheck"
    /\ Goto(o, "join_all")
    /\ UNCHANGED <<started, numBlocking, groupVars, timerVars, task, verdict, finished>>

\* One pass of the condvar loop; wait() releases the lock.
AwaitBlocking(o) ==
    /\ pc[o] = "recheck"
    /\ Goto(o, IF numBlocking > 0 THEN "wait" ELSE "join_all")
    /\ UNCHANGED <<started, numBlocking, groupVars, timerVars, task, verdict, finished>>

SpuriousWake(o) ==
    /\ pc[o] = "wait"
    /\ Goto(o, "recheck")
    /\ UNCHANGED <<started, numBlocking, groupVars, timerVars, task, verdict, finished>>

JoinAll(o) ==
    /\ pc[o] = "join_all"
    /\ groupStop' = TRUE
    /\ Goto(o, "take_handles")
    /\ UNCHANGED <<started, numBlocking, ready, handles, joining, timerVars, task,
                   verdict, finished>>

\* A slip to detect: one handle is left out.
TakeMostHandles(o) ==
    /\ pc[o] = "take_handles"
    /\ \E w \in Workers : joining' = [joining EXCEPT ![o] = handles \ {w}]
    /\ handles' = {}
    /\ Goto(o, "join_workers")
    /\ UNCHANGED <<started, numBlocking, ready, groupStop, timerVars, task, verdict,
                   finished>>

\* mem::take: a second caller finds nothing to join.
TakeHandles(o) ==
    /\ pc[o] = "take_handles"
    /\ joining' = [joining EXCEPT ![o] = handles]
    /\ handles' = {}
    /\ Goto(o, "join_workers")
    /\ UNCHANGED <<started, numBlocking, ready, groupStop, timerVars, task, verdict,
                   finished>>

JoinWorkers(o) ==
    /\ pc[o] = "join_workers"
    /\ \A w \in joining[o] : pc[w] \in {"exited", "dead"}
    /\ Goto(o, "stop_timer")
    /\ UNCHANGED <<started, numBlocking, groupVars, timerVars, task, verdict, finished>>

StopTimer(o) ==
    /\ pc[o] = "stop_timer"
    /\ timerStop' = TRUE
    /\ Goto(o, "take_timer")
    /\ UNCHANGED <<started, numBlocking, groupVars, waiting, timerAlive, timerHandle,
                   task, verdict, finished>>

TakeTimer(o) ==
    /\ pc[o] = "take_timer"
    /\ timerHandle' = FALSE
    /\ Goto(o, IF timerHandle THEN "join_timer" ELSE "returned")
    /\ UNCHANGED <<started, numBlocking, groupVars, waiting, timerStop, timerAlive,
                   task, verdict, finished>>

JoinTimer(o) ==
    /\ pc[o] = "join_timer" /\ ~timerAlive
    /\ Goto(o, "returned")
    /\ UNCHANGED <<started, numBlocking, groupVars, timerVars, task, verdict, finished>>

ShutdownStep(o) == \/ AwaitBlocking(o) \/ JoinAll(o) \/ TakeHandles(o)
                   \/ JoinWorkers(o) \/ StopTimer(o) \/ TakeTimer(o) \/ JoinTimer(o)

-----------------------------------------------------------------------------

\* Every call of shutdown has returned; the pool is of no more use.
Done == Returned = Stoppers /\ UNCHANGED vars

Next == \/ \E p \in Posters, t \in Tasks : PostTask(p, t) \/ RunnerPostTask(p, t)
        \/ \E p \in Posters : Push(p)
        \/ \E w \in Workers : WorkerStep(w) \/ Panic(w)
        \/ \E t \in Tasks : Fire(t)
        \/ TimerExit
        \/ \E o \in Stoppers : BeginShutdown(o) \/ ShutdownStep(o) \/ SpuriousWake(o)
        \/ Done

Spec == Init /\ [][Next]_vars

\* A call that was made proceeds, callbacks return, deadlines pass.  Nobody has
\* to post, to call shutdown, to panic or to wake spuriously.
Fairness ==
    /\ \A p \in Posters : WF_vars(Push(p))
    /\ \A w \in Workers : WF_vars(WorkerStep(w))
    /\ \A t \in Tasks : WF_vars(Fire(t))
    /\ WF_vars(TimerExit)
    /\ \A o \in Stoppers : WF_vars(ShutdownStep(o))

FairSpec == Spec /\ Fairness

-----------------------------------------------------------------------------
(* Properties *)

Phases == {"open", "stopping", "stopped"}

WorkerPCs == {"get_work", "check_skip", "run", "after_run", "exited", "dead"}
PosterPCs == {"idle", "push"}
StopperPCs == {"idle", "recheck", "wait", "join_all", "take_handles", "join_workers",
               "stop_timer", "take_timer", "join_timer", "returned"}

Shape ==
    /\ started \in BOOLEAN /\ groupStop \in BOOLEAN
    /\ timerStop \in BOOLEAN /\ timerAlive \in BOOLEAN /\ timerHandle \in BOOLEAN
    /\ numBlocking \in Int
    /\ waiting \subseteq Delayed /\ ready \subseteq Tasks /\ finished \subseteq Tasks
    /\ handles \subseteq Workers
    /\ joining \in [Stoppers -> SUBSET Workers]
    /\ pc \in [Threads -> WorkerPCs \cup PosterPCs \cup StopperPCs]
    /\ \A w \in Workers : pc[w] \in WorkerPCs
    /\ \A p \in Posters : pc[p] \in PosterPCs
    /\ \A o \in Stoppers : pc[o] \in StopperPCs
    /\ task \in [Workers \cup Posters -> Tasks \cup {NoTask}]
    /\ verdict \in [Tasks -> {"none", "rejected"} \cup Phases]

\* Every variable has its type; num_tasks_blocking_shutdown, a usize, never
\* underflows.
TypeOK == Shape /\ numBlocking \in Nat

Accepted == {t \in Tasks : verdict[t] \in Phases}

\* The accepted BlockShutdown tasks whose after_run_task has not happened.
Unaccounted ==
    {t \in Accepted \cap Direct :
        Blocks(t) /\ (t \in finished =>
                        \E w \in Workers : pc[w] = "after_run" /\ task[w] = t)}

\* num_tasks_blocking_shutdown counts exactly the BlockShutdown tasks that were
\* accepted and not yet accounted for; in particular it never underflows.
CountExact == numBlocking = Cardinality(Unaccounted)

PastTracker == {"join_all", "take_handles", "join_workers", "stop_timer", "take_timer",
                "join_timer", "returned"}

\* Once TaskTracker::shutdown let a caller pass, every BlockShutdown task accepted
\* by the pool has finished, however posts and shutdown calls interleaved.
BlockShutdownHonoured ==
    (\E o \in Stoppers : pc[o] \in PastTracker) =>
        \A t \in Accepted \cap Direct : Blocks(t) => t \in finished

\* The notification of the last task is not lost: nobody sleeps on a zero count.
NoLostNotification ==
    \A o \in Stoppers : pc[o] = "wait" => numBlocking > 0

\* When every call of shutdown that was made has returned, no worker and no
\* timer thread is left, although a second caller joins nothing itself.
QuietAfterShutdown ==
    Returned # {} /\ (\A o \in Stoppers : pc[o] \in {"idle", "returned"}) =>
        /\ ~timerAlive
        /\ \A w \in Workers : pc[w] \in {"exited", "dead"}

\* Some panic left the count above zero, or nobody is left to run the tasks.
Broken ==
    \/ \E w \in Workers : pc[w] = "dead" /\ Blocks(task[w])
    \/ \A w \in Workers : pc[w] = "dead"

\* An accepted BlockShutdown task, queued, delayed or running, comes to its end
\* even though shutdown begins meanwhile.
BlockingTasksFinish ==
    \A t \in Direct :
        (t \in Accepted /\ Blocks(t)) ~> (t \in finished \/ Broken)

\* A call of shutdown returns.
ShutdownReturns ==
    \A o \in Stoppers : pc[o] # "idle" ~> (pc[o] = "returned" \/ Broken)

\* What the README says of BlockShutdown, whatever it was posted through:
\* shutdown() blocks until all such tasks finish.
AllBlockShutdownFinish ==
    Returned # {} =>
        \A t \in Tasks : Blocks(t) /\ verdict[t] = "open" => t \in finished
=============================================================================

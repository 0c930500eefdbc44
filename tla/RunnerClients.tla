--------------------------- MODULE RunnerClients ---------------------------
(***************************************************************************)
(* The clients of the task runners together: a repeating timer, an event   *)
(* bus and a file proxy, whose tasks share the threads, and whose          *)
(* callbacks may call any of them.                                         *)
(***************************************************************************)
EXTENDS RepeatingTimer, EventBus, FileProxy

vars == <<runnerVars, timerVars, busVars, fileVars>>

Init == RunnersInit /\ TimerInit /\ BusInit /\ FileInit

\* The bus alone has its runner; the application posts to the others and keeps them.
Owned(r) == r = BusRunner => BusAlive
StartNext(r) == \E t \in Threads : Start(t, r, Owned(r))

ClientCall(c) ==
    \/ TimerCall(c) /\ UNCHANGED <<busVars, fileVars>>
    \/ BusCall(c) /\ UNCHANGED <<timerVars, fileVars>>
    \/ FileCall(c) /\ UNCHANGED <<timerVars, busVars>>
    \/ \E r \in Runners \ {BusRunner} :
          PostTaskAndReply(c, r) /\ UNCHANGED <<timerVars, busVars, fileVars>>

\* A call that takes several steps goes on.
CallStep(c) ==
    \/ TimerStep(c) /\ UNCHANGED <<busVars, fileVars>>
    \/ SubscribePosts(c) /\ UNCHANGED <<timerVars, fileVars>>

TaskStep(t) ==
    \/ (BeginTask(t) \/ PostReply(t) \/ EndTask(t)) /\ UNCHANGED <<timerVars, busVars, fileVars>>
    \/ TickStep(t) /\ UNCHANGED <<busVars, fileVars>>
    \/ BusTask(t) /\ UNCHANGED <<timerVars, fileVars>>
    \/ FileTask(t) /\ UNCHANGED <<timerVars, busVars>>

Deadline(r, w) == Expire(r, w) /\ UNCHANGED <<timerVars, busVars, fileVars>>
Take(r) == StartNext(r) /\ UNCHANGED <<timerVars, busVars, fileVars>>

Next ==
    \/ \E c \in Callers : ClientCall(c) \/ CallStep(c)
    \/ \E t \in Threads : TaskStep(t)
    \/ \E r \in Runners : Take(r) \/ \E w \in Range(later[r]) : Deadline(r, w)

Spec == Init /\ [][Next]_vars

\* What a thread does next: it goes on with a call or a task, or takes up a task.
Serve(t) == /\ \E r \in Runners : Start(t, r, Owned(r))
            /\ UNCHANGED <<timerVars, busVars, fileVars>>
ThreadStep(t) == CallStep(t) \/ TaskStep(t) \/ Serve(t)

\* Threads proceed, callbacks return and deadlines pass. A timer alone has tasks for
\* ever; other sequences are served again and again although the workers serve it too:
\* the pool takes sequences of equal priority in the order they were queued, which the
\* runs of ThreadGroup check.
FairSpec ==
    /\ Spec
    /\ \A u \in Users : WF_vars(CallStep(u))
    /\ \A t \in Threads : WF_vars(ThreadStep(t))
    /\ \A r \in PoolRunners \ {TimerRunner} : SF_vars(Take(r))
    /\ WF_vars(\E w \in Range(later[TimerRunner]) : Deadline(TimerRunner, w))

-----------------------------------------------------------------------------
Ids == 0 .. MaxCalls
BusWorks == [kind : BusKinds, id : Ids] \cup [kind : {"flush"}, id : Nat]
FileWorks == [kind : FileKinds, id : Ids]
Answers == [kind : {"done"}, id : Ids, op : FileKinds, result : Seq(Ids)]
Works == [kind : {"task", "reply"}, id : Runners \cup {None}]
         \cup [kind : {"tick"}, id : Ids] \cup BusWorks \cup FileWorks \cup Answers

\* A task in a thread: the locals of its closure are the callbacks that a publish has
\* still to call, or the result of a file operation.
Runs == [runner : Runners, task : Works, locals : Seq(Ids),
         at : {"begin", "user", "schedule", "callback", "deliver", "transfer", "close",
               "reply", "drop"}]
CallsInProgress == [op : {"start"}, id : Ids, at : {"schedule", "return"}]
                   \cup [op : {"subscribe"}, id : Ids, at : {"post"}]

ASSUME ClientsAssumption ==
    /\ {TimerRunner, BusRunner, FileRunner} \subseteq PoolRunners
    /\ Nothing \notin Runs /\ Nothing \notin CallsInProgress

\* Type invariant.
TypeOK ==
    /\ fifo \in [Runners -> Seq(Works)] /\ later \in [Runners -> Seq(Works)]
    /\ run \in [Threads -> Runs \cup {Nothing}]
    /\ \A t \in Threads : run[t] # Nothing => Serves(t, run[t].runner)
    /\ token \in [Callers -> Runners \cup {None}]
    /\ default \in [Callers -> Runners \cup {None}]
    /\ call \in [Callers -> CallsInProgress \cup {Nothing}]
    /\ calls \in Ids /\ owed \in Ids /\ unflushed \in Ids
    /\ active \in Ids /\ inners \in Ids /\ handler \in BOOLEAN
    /\ late \in [1 .. MaxCalls -> Ids] /\ stoppedIn \subseteq Ids
    /\ busHandle \in BOOLEAN /\ subscribers \in Seq(Ids) /\ ledger \in Seq(Ids)
    /\ nextId \in Ids /\ published \in Ids
    /\ got \in Seq(Ids \X Ids) /\ expected \in Seq(Ids \X Ids)
    /\ asked \in Ids /\ answered \in Seq(Ids) /\ open \subseteq Ids
    /\ content \in Ids /\ changed \subseteq Ids

\* A task sees the token and the default runner of its own runner, whatever ran on the
\* thread before it, and a reply runs on the sequence it was asked from. A task without
\* a default, whose own post_task_and_reply would lose the reply, is one of a runner
\* that nobody holds any more, and nobody can get hold of it again.
EnvironmentExact ==
    /\ \A t \in Threads :
          IF run[t] = Nothing
            THEN t \in Workers => token[t] = None /\ default[t] = None
            ELSE LET r == run[t].runner IN
                 /\ InSequence(t, r)
                 /\ default[t] = r \/ (default[t] = None /\ ~HasRunner(r, Owned(r)))
                 /\ run[t].task.kind = "reply" => InSequence(t, run[t].task.id)
    /\ \A u \in Users : token[u] = None /\ default[u] = None

\* What timer.rs promises of the ticks, see RepeatingTimer.
TimerSound == OneChain /\ FewLateTicks

\* A timer that runs ticks on and on until it is stopped, replaced or its object
\* is dropped. Once the calls have ceased (and MaxCalls sees to that) all they asked
\* for was done: replies on the caller's sequence, answers about files, and the
\* done callback of every flush, even of a bus that was dropped (event_bus.rs:91-92).
ClientsServed ==
    /\ []<>(\/ active = 0 \/ ~handler
            \/ \E t \in Threads : Is(t, {"tick"}, "user") /\ run[t].task.id = active)
    /\ <>[](owed = 0 /\ unflushed = 0 /\ Len(answered) = asked)
=============================================================================

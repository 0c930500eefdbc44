---------------------------- MODULE TaskRunners ----------------------------
(***************************************************************************)
(* The task runners as the code that posts to them sees them: what         *)
(* ThreadGroup implements is taken as given (one task of a sequence at a   *)
(* time, in order), and what a task sees of the thread it runs on is       *)
(* modelled: the sequence token and the default runner, two thread-locals  *)
(* set and reset by guards around each task (sequence_token.rs,            *)
(* sequenced_task_runner.rs, thread_pool/worker_thread.rs).                *)
(* A task is a record of its kind and a number or runner; where its        *)
(* closure stands is `at`, which is "user" while code of the application   *)
(* runs that may call any interface.                                       *)
(***************************************************************************)
EXTENDS Naturals, Sequences, FiniteSets, SequencesExt

CONSTANTS Users,               \* threads of the application
          Workers, IoThread,   \* threads that run tasks
          PoolRunners,         \* runners created by the pool
          IoRunner,            \* the IoTaskRunner
          None,                \* no token, no default runner
          Nothing,             \* no task, no call
          MaxCalls,            \* bound: calls of interfaces made in all
          MaxEach              \* bound: calls of one interface that makes something new

Runners == PoolRunners \cup {IoRunner}
Threads == Workers \cup {IoThread}
Callers == Users \cup Threads

ASSUME RunnersAssumption ==
    /\ IoRunner \notin PoolRunners /\ None \notin Runners
    /\ IoThread \notin Workers /\ Users \cap Threads = {}
    /\ MaxCalls \in Nat /\ MaxEach \in Nat

VARIABLES fifo,       \* tasks waiting in each runner
          later,      \* its delayed tasks
          run,        \* the task of each thread: its runner, where it is, its locals
          token,      \* CURRENT_SEQUENCE_TOKEN of each thread
          default,    \* CURRENT_DEFAULT
          call,       \* the call a caller is in, where it takes several steps
          calls,
          owed        \* history: replies asked for that have not begun

envVars == <<token, default>>
callVars == <<call, calls, owed>>
runnerVars == <<fifo, later, run, envVars, callVars>>

RunnersInit ==
    /\ fifo = [r \in Runners |-> <<>>]
    /\ later = [r \in Runners |-> <<>>]
    /\ run = [t \in Threads |-> Nothing]
    /\ token = [c \in Callers |-> IF c = IoThread THEN IoRunner ELSE None]
    /\ default = [c \in Callers |-> IF c = IoThread THEN IoRunner ELSE None]
    /\ call = [c \in Callers |-> Nothing]
    /\ calls = 0 /\ owed = 0

Work(kind, id) == [kind |-> kind, id |-> id]

\* The task of thread t is of one of these kinds, and its closure is there.
Is(t, kinds, at) == run[t] # Nothing /\ run[t].task.kind \in kinds /\ run[t].at = at

Queued(r) == Range(fifo[r]) \cup Range(later[r])
Running == {run[t].task : t \in {u \in Threads : run[u] # Nothing}}
Everywhere == Running \cup UNION {Queued(r) : r \in Runners}

Posted(r, w) == [fifo EXCEPT ![r] = Append(@, w)]
PostedDelayed(r, w) == [later EXCEPT ![r] = Append(@, w)]

\* An application's thread, or the callback a thread is in, calls an interface.
MayCall(c) ==
    /\ calls < MaxCalls /\ call[c] = Nothing
    /\ c \in Threads => run[c] # Nothing /\ run[c].at = "user"
Calls == calls' = calls + 1 /\ UNCHANGED owed

-----------------------------------------------------------------------------
(* Threads *)

Serves(t, r) == t = IoThread <=> r = IoRunner

\* The Arcs of a runner that this module knows of: reply_runner, in the closure of a
\* task until it ends, and the default of a thread. A reply that waits holds none.
Captured(r) ==
    \/ \E w \in Everywhere : w.kind = "task" /\ w.id = r
    \/ \E c \in Callers : default[c] = r

\* A slip to detect: the guards are leaked, so that the thread keeps them.
RestoredToken(t) ==
    /\ token' = [token EXCEPT ![t] = IF t = IoThread THEN @ ELSE None]
    /\ UNCHANGED default

\* Dropping a guard: the token is cleared, the default is what it was before.
Restored(t) ==
    /\ token' = [token EXCEPT ![t] = IF t = IoThread THEN @ ELSE None]
    /\ default' = [default EXCEPT ![t] = IF t = IoThread THEN @ ELSE None]

Finish(t) ==
    /\ run' = [run EXCEPT ![t] = Nothing]
    /\ Restored(t)

MoveTo(t, at) == run' = [run EXCEPT ![t].at = at]

\* SequenceToken::create draws a number for each sequence; a runner stands for it.
TokenOf(r) == r

\* runs_tasks_in_current_sequence
InSequence(c, r) == token[c] = TokenOf(r)

\* get_execution_environment: a sequence refers to its runner weakly, and its tasks
\* get no default once that is gone; `owned`: the application still holds it.
HasRunner(r, owned) == r = IoRunner \/ owned \/ Captured(r)

\* The guards made before a task is taken.
ScopedToken(t, r) == token' = [token EXCEPT ![t] = TokenOf(r)]
DefaultHandle(t, r) == default' = [default EXCEPT ![t] = r]

\* A thread takes up the next task of a runner.
Start(t, r, owned) ==
    /\ run[t] = Nothing /\ Serves(t, r) /\ fifo[r] # <<>>
    /\ \A u \in Threads : run[u] # Nothing => run[u].runner # r
    /\ fifo' = [fifo EXCEPT ![r] = Tail(@)]
    /\ run' = [run EXCEPT ![t] = [runner |-> r, task |-> Head(fifo[r]),
                                  at |-> "begin", locals |-> <<>>]]
    /\ ScopedToken(t, r)
    /\ IF HasRunner(r, owned) THEN DefaultHandle(t, r) ELSE UNCHANGED default
    /\ UNCHANGED <<later, callVars>>

\* The deadline of a delayed task has passed: it lines up behind the others.
Expire(r, w) ==
    /\ w \in Range(later[r])
    /\ fifo' = Posted(r, w)
    /\ later' = [later EXCEPT ![r] = RemoveFirst(@, w)]
    /\ UNCHANGED <<run, token, default, callVars>>

-----------------------------------------------------------------------------
(* Posting, and the reply to a task *)

\* post_task_and_reply. The reply goes to the default runner of the caller; a
\* thread without one (an application's) gets none, and the call is a post_task.
PostTaskAndReply(c, r) ==
    /\ MayCall(c) /\ calls' = calls + 1
    /\ fifo' = Posted(r, Work("task", default[c]))
    /\ owed' = IF default[c] = None THEN owed ELSE owed + 1
    /\ UNCHANGED <<later, run, token, default, call>>

BeginTask(t) ==
    /\ Is(t, {"task", "reply"}, "begin")
    /\ MoveTo(t, "user")
    /\ owed' = IF run[t].task.kind = "reply" THEN owed - 1 ELSE owed
    /\ UNCHANGED <<fifo, later, token, default, call, calls>>

\* The closure of a task with a reply posts it; then it drops its Arc of the runner.
PostReply(t) ==
    /\ Is(t, {"task"}, "user") /\ call[t] = Nothing /\ run[t].task.id # None
    /\ fifo' = Posted(run[t].task.id, Work("reply", run[t].task.id))
    /\ MoveTo(t, "drop")
    /\ UNCHANGED <<later, token, default, callVars>>

EndTask(t) ==
    /\ \/ Is(t, {"task"}, "drop")
       \/ Is(t, {"reply"}, "user") /\ call[t] = Nothing
       \/ Is(t, {"task"}, "user") /\ call[t] = Nothing /\ run[t].task.id = None
    /\ Finish(t)
    /\ UNCHANGED <<fifo, later, callVars>>
=============================================================================

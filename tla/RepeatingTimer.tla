--------------------------- MODULE RepeatingTimer ---------------------------
(***************************************************************************)
(* RepeatingTimer (rust_task/timer.rs) over bind_once and bind_repeating   *)
(* (bind.rs). A start allocates a TimerInner, numbered here; `active`      *)
(* refers to the current one, and each pending tick refers to its own      *)
(* weakly, so that it does nothing once the references are gone.           *)
(***************************************************************************)
EXTENDS TaskRunners

CONSTANT TimerRunner

VARIABLES active,      \* the number of the TimerInner, 0 for None
          inners,      \* how many were allocated
          handler,     \* the object that the callback is bound to is alive
          late,        \* history: callbacks begun after a TimerInner was replaced
          stoppedIn    \* history: those given up by a task of the timer's runner

timerVars == <<active, inners, handler, late, stoppedIn>>

TimerInit ==
    /\ active = 0 /\ inners = 0 /\ handler = TRUE
    /\ late = [i \in 1 .. MaxCalls |-> 0]
    /\ stoppedIn = {}

Tick(i) == Work("tick", i)

\* Calls of start that still have their own reference to an inner.
Starters(i) == {c \in Callers : call[c] # Nothing /\ call[c].op = "start" /\ call[c].id = i}

\* A slip to detect: the pending task is bound to the Arc itself.
InnerHeld(i) == TRUE

\* Whether Weak<TimerInner>::upgrade returns it.
InnerAlive(i) ==
    \/ active = i \/ Starters(i) # {}
    \/ \E t \in Threads : Is(t, {"tick"}, "schedule") /\ run[t].task.id = i

\* `active` is overwritten: what it referred to loses that reference.
GiveUp(c, i) ==
    /\ active' = i
    /\ stoppedIn' = IF /\ c \in Threads /\ run[c].runner = TimerRunner
                       /\ active # 0 /\ Starters(active) = {}
                      THEN stoppedIn \cup {active} ELSE stoppedIn

\* A slip to detect: a timer that runs is not replaced, only scheduled.
TimerStartAgain(c) ==
    /\ MayCall(c) /\ Calls /\ inners < MaxEach
    /\ inners' = IF active = 0 THEN inners + 1 ELSE inners
    /\ GiveUp(c, inners')
    /\ call' = [call EXCEPT ![c] = [op |-> "start", id |-> inners', at |-> "schedule"]]
    /\ UNCHANGED <<fifo, later, run, token, default, handler, late>>

TimerStart(c) ==
    /\ MayCall(c) /\ Calls /\ inners < MaxEach
    /\ inners' = inners + 1
    /\ GiveUp(c, inners + 1)
    /\ call' = [call EXCEPT ![c] = [op |-> "start", id |-> inners + 1, at |-> "schedule"]]
    /\ UNCHANGED <<fifo, later, run, token, default, handler, late>>

\* schedule_next called by start, and the return of start, which drops the Arc.
StartSchedules(c) ==
    /\ call[c] # Nothing /\ call[c].op = "start" /\ call[c].at = "schedule"
    /\ later' = PostedDelayed(TimerRunner, Tick(call[c].id))
    /\ call' = [call EXCEPT ![c].at = "return"]
    /\ UNCHANGED <<fifo, run, token, default, calls, owed, timerVars>>

StartReturns(c) ==
    /\ call[c] # Nothing /\ call[c].op = "start" /\ call[c].at = "return"
    /\ call' = [call EXCEPT ![c] = Nothing]
    /\ UNCHANGED <<fifo, later, run, token, default, calls, owed, timerVars>>

\* stop, and the drop of the timer.
TimerStop(c) ==
    /\ MayCall(c) /\ Calls
    /\ GiveUp(c, 0)
    /\ UNCHANGED <<fifo, later, run, token, default, call, inners, handler, late>>

\* The application drops the object that the callback was bound to weakly.
DropHandler(c) ==
    /\ MayCall(c) /\ Calls /\ handler
    /\ handler' = FALSE
    /\ UNCHANGED <<fifo, later, run, token, default, call, active, inners, late, stoppedIn>>

\* bind_once: without the object the task does nothing.
TickBegin(t) ==
    /\ Is(t, {"tick"}, "begin")
    /\ IF InnerAlive(run[t].task.id) THEN MoveTo(t, "schedule") /\ UNCHANGED envVars
                                     ELSE Finish(t)
    /\ UNCHANGED <<fifo, later, callVars, timerVars>>

TickSchedules(t) ==
    /\ Is(t, {"tick"}, "schedule")
    /\ later' = PostedDelayed(TimerRunner, Tick(run[t].task.id))
    /\ MoveTo(t, "callback")
    /\ UNCHANGED <<fifo, token, default, callVars, timerVars>>

\* The reference was dropped; the callback does nothing without its object.
TickCalls(t) ==
    /\ Is(t, {"tick"}, "callback")
    /\ IF handler THEN MoveTo(t, "user") /\ UNCHANGED envVars ELSE Finish(t)
    /\ LET i == run[t].task.id IN
          late' = IF active # i /\ Starters(i) = {} THEN [late EXCEPT ![i] = @ + 1] ELSE late
    /\ UNCHANGED <<fifo, later, callVars, active, inners, handler, stoppedIn>>

TickReturns(t) ==
    /\ Is(t, {"tick"}, "user") /\ call[t] = Nothing
    /\ Finish(t)
    /\ UNCHANGED <<fifo, later, callVars, timerVars>>

TimerCall(c) == TimerStart(c) \/ TimerStop(c) \/ DropHandler(c)
TimerStep(c) == StartSchedules(c) \/ StartReturns(c)
TickStep(t) == TickBegin(t) \/ TickSchedules(t) \/ TickCalls(t) \/ TickReturns(t)

-----------------------------------------------------------------------------
Occurrences(s, w) == Cardinality({k \in DOMAIN s : s[k] = w})

\* The places from which the next tick of an inner will come.
Pending(i) ==
    Occurrences(later[TimerRunner], Tick(i)) + Occurrences(fifo[TimerRunner], Tick(i))
    + Cardinality({t \in Threads : run[t] # Nothing /\ run[t].task = Tick(i)
                                      /\ run[t].at \in {"begin", "schedule"}})
    + Cardinality({c \in Starters(i) : call[c].at = "schedule"})

\* A running timer has exactly one chain of ticks, and one that was stopped or
\* replaced never grows a second one, however start, stop and ticks interleave.
OneChain ==
    \A i \in 1 .. inners : Pending(i) <= 1 /\ (active = i => Pending(i) = 1)

\* After stop() or a restart at most the callback that was on its way is called,
\* and none if the call came from the timer's own sequence (timer.rs:83-86). While
\* a start that was overtaken has not returned its timer still counts as running.
FewLateTicks ==
    \A i \in 1 .. inners : late[i] <= IF i \in stoppedIn THEN 0 ELSE 1
=============================================================================

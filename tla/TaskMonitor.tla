----------------------------- MODULE TaskMonitor -----------------------------
(***************************************************************************)
(* TaskMonitor (rust_task/task_monitor.rs): workers store the start of the *)
(* task they run in a slot each; a watchdog thread wakes up at intervals,  *)
(* reads the clock, then the slots one by one, and reports who is over the *)
(* threshold; the drop of the monitor stops it.                            *)
(* Time is relative: a slot holds the ticks since its task was started, so *)
(* that the model needs no bound on the clock.                             *)
(***************************************************************************)
EXTENDS Naturals, Sequences, SequencesExt

CONSTANTS Workers,
          Threshold,     \* hang_threshold, in ticks
          Interval,      \* watchdog_interval
          MaxLag,        \* bound: ticks that a scan and its reports may take
          Idle           \* the zero of a slot

ASSUME MonitorAssumption ==
    /\ Threshold \in Nat \ {0} /\ Interval \in Nat \ {0} /\ MaxLag \in Nat
    /\ Idle \notin Nat

\* Ages are counted up to this one, which decides every comparison.
Oldest == Threshold + MaxLag
Ages == 0 .. Oldest

VARIABLES slots,       \* the registered workers, in order
          slot,        \* what a worker's slot holds
          worker,      \* where a worker is
          age,         \* history: ticks since the worker's callback was called
          fresh,       \* no tick yet since `reference`
          dog,         \* where the watchdog is
          left,        \* ticks until its wait times out
          timedOut,    \* how the wait ended
          since,       \* ticks since it read the clock
          next,        \* the slot it reads next
          hung,        \* HangInfo to report
          suspects,    \* history: who was over the threshold when it read the clock
          shutdown, owner   \* the flag, and where the drop is

workerVars == <<slots, slot, worker, age>>
dogVars == <<dog, left, timedOut, since, next, hung, suspects>>
vars == <<workerVars, fresh, dogVars, shutdown, owner>>

\* Inner: no worker is registered, the reference is the time of the build.
InnerInit == slots = <<>> /\ fresh = TRUE /\ shutdown = FALSE

\* TaskMonitorBuilder::build: a watchdog only if a threshold was configured.
Init ==
    /\ InnerInit
    /\ slot = [w \in Workers |-> Idle]
    /\ worker = [w \in Workers |-> "new"]
    /\ age = [w \in Workers |-> Idle]
    /\ dog \in {"none", "start"}
    /\ left = 0 /\ timedOut = FALSE /\ since = 0 /\ next = 1
    /\ hung = <<>> /\ suspects = {}
    /\ owner = "up"

-----------------------------------------------------------------------------
(* Workers *)

\* The watchdog holds the lock of the slots while it scans.
RegisterWorker(w) ==
    /\ worker[w] = "new" /\ owner = "up" /\ dog # "scan"
    /\ slots' = Append(slots, w)
    /\ worker' = [worker EXCEPT ![w] = "idle"]
    /\ UNCHANGED <<slot, age, fresh, dogVars, shutdown, owner>>

\* A slip to detect: the nanoseconds are stored as they are, and zero means idle.
StartedAtZero(w) ==
    /\ worker[w] = "idle"
    /\ slot' = [slot EXCEPT ![w] = IF fresh THEN Idle ELSE 0]
    /\ worker' = [worker EXCEPT ![w] = "task"]
    /\ age' = [age EXCEPT ![w] = 0]
    /\ UNCHANGED <<slots, fresh, dogVars, shutdown, owner>>

\* task_started stores the time, one at least, and the wrapped callback is called.
TaskStarted(w) ==
    /\ worker[w] = "idle"
    /\ slot' = [slot EXCEPT ![w] = 0]
    /\ worker' = [worker EXCEPT ![w] = "task"]
    /\ age' = [age EXCEPT ![w] = 0]
    /\ UNCHANGED <<slots, fresh, dogVars, shutdown, owner>>

\* The wrapper of wrap_task: on_metrics follows the task, inside the same callback.
Measure(w) ==
    /\ worker[w] = "task"
    /\ worker' = [worker EXCEPT ![w] = "metrics"]
    /\ UNCHANGED <<slots, slot, age, fresh, dogVars, shutdown, owner>>

\* A slip to detect: the slot keeps the time of the last task.
FinishedKeeping(w, after) ==
    /\ age' = [age EXCEPT ![w] = Idle]
    /\ worker' = [worker EXCEPT ![w] = after]
    /\ UNCHANGED <<slots, slot, fresh, dogVars, shutdown, owner>>

\* task_finished, or the drop of the slot.
Cleared(w, after) ==
    /\ slot' = [slot EXCEPT ![w] = Idle]
    /\ age' = [age EXCEPT ![w] = Idle]
    /\ worker' = [worker EXCEPT ![w] = after]
    /\ UNCHANGED <<slots, fresh, dogVars, shutdown, owner>>

TaskFinished(w) == worker[w] = "metrics" /\ Cleared(w, "idle")

\* The worker ends, between two tasks or because a callback panics.
DropSlot(w) == worker[w] \in {"idle", "task", "metrics"} /\ Cleared(w, "gone")

-----------------------------------------------------------------------------
(* The watchdog *)

Wait ==
    /\ dog = "start"
    /\ dog' = "wait" /\ left' = Interval
    /\ UNCHANGED <<workerVars, fresh, timedOut, since, next, hung, suspects, shutdown, owner>>

WakeUp(late) ==
    /\ dog' = "woken" /\ timedOut' = late
    /\ UNCHANGED <<left, since, next, hung, suspects>>

TimeOut ==
    /\ dog = "wait" /\ left = 0
    /\ WakeUp(TRUE)
    /\ UNCHANGED <<workerVars, fresh, shutdown, owner>>

\* A condvar may wake without a reason; the loop takes that for the end.
SpuriousWake ==
    /\ dog = "wait"
    /\ WakeUp(FALSE)
    /\ UNCHANGED <<workerVars, fresh, shutdown, owner>>

\* A slip to detect: the watchdog trusts the notification alone.
CheckTimeout ==
    /\ dog = "woken"
    /\ dog' = IF timedOut THEN "scan" ELSE "ended"
    /\ since' = 0 /\ next' = 1 /\ hung' = <<>>
    /\ suspects' = {w \in Workers : age[w] # Idle /\ age[w] >= Threshold}
    /\ UNCHANGED <<workerVars, fresh, left, timedOut, shutdown, owner>>

\* The end of the loop, or the clock is read for the next scan.
Check ==
    /\ dog = "woken"
    /\ dog' = IF shutdown \/ ~timedOut THEN "ended" ELSE "scan"
    /\ since' = 0 /\ next' = 1 /\ hung' = <<>>
    /\ suspects' = {w \in Workers : age[w] # Idle /\ age[w] >= Threshold}
    /\ UNCHANGED <<workerVars, fresh, left, timedOut, shutdown, owner>>

\* A slip to detect: the difference wraps around when the task started after the clock
\* was read.
ElapsedWrapping(w) == IF slot[w] < since THEN Oldest ELSE slot[w] - since

\* saturating_sub of the start from the clock that was read.
Elapsed(w) == IF slot[w] < since THEN 0 ELSE slot[w] - since

\* The load of one slot.
Scan ==
    /\ dog = "scan" /\ next <= Len(slots)
    /\ LET w == slots[next] IN
       hung' = IF slot[w] # Idle /\ Elapsed(w) >= Threshold THEN Append(hung, w) ELSE hung
    /\ next' = next + 1
    /\ UNCHANGED <<workerVars, fresh, dog, left, timedOut, since, suspects, shutdown, owner>>

EndScan ==
    /\ dog = "scan" /\ next > Len(slots)
    /\ dog' = "report"
    /\ UNCHANGED <<workerVars, fresh, left, timedOut, since, next, hung, suspects, shutdown, owner>>

\* on_hang is called without a lock and returns; then the next wait.
Report ==
    /\ dog = "report"
    /\ IF hung = <<>>
       THEN dog' = "start" /\ UNCHANGED hung
       ELSE hung' = Tail(hung) /\ UNCHANGED dog
    /\ UNCHANGED <<workerVars, fresh, left, timedOut, since, next, suspects, shutdown, owner>>

WatchdogLoop == Wait \/ TimeOut \/ Check \/ Scan \/ EndScan \/ Report

-----------------------------------------------------------------------------
(* Drop *)

StoreFlag ==
    /\ owner = "up"
    /\ shutdown' = TRUE /\ owner' = "notify"
    /\ UNCHANGED <<workerVars, fresh, dogVars>>

\* notify_one wakes the watchdog if it waits, and is lost otherwise.
Notify ==
    /\ owner = "notify"
    /\ IF dog = "wait" THEN WakeUp(FALSE) ELSE UNCHANGED dogVars
    /\ owner' = "join"
    /\ UNCHANGED <<workerVars, fresh, shutdown>>

Join ==
    /\ owner = "join" /\ dog \in {"none", "ended"}
    /\ owner' = "returned"
    /\ UNCHANGED <<workerVars, fresh, dogVars, shutdown>>

Drop == StoreFlag \/ Notify \/ Join

Older(a) == IF a = Idle \/ a = Oldest THEN a ELSE a + 1

\* Time passes: the watchdog may be late, but a scan takes MaxLag ticks at most.
Tick ==
    /\ dog \in {"scan", "report"} => since < MaxLag
    /\ fresh' = FALSE
    /\ slot' = [w \in Workers |-> Older(slot[w])]
    /\ age' = [w \in Workers |-> Older(age[w])]
    /\ left' = IF left = 0 THEN 0 ELSE left - 1
    /\ since' = IF dog \in {"scan", "report"} THEN since + 1 ELSE since
    /\ UNCHANGED <<slots, worker, dog, timedOut, next, hung, suspects, shutdown, owner>>

WorkerStep(w) == RegisterWorker(w) \/ TaskStarted(w) \/ Measure(w) \/ TaskFinished(w) \/ DropSlot(w)

Next == \/ \E w \in Workers : WorkerStep(w)
        \/ WatchdogLoop \/ SpuriousWake \/ Drop \/ Tick

Spec == Init /\ [][Next]_vars

\* The watchdog is scheduled, on_hang returns, time passes, and a drop that began goes
\* on.  Workers may stay in a task for ever.
FairSpec == Spec /\ WF_vars(WatchdogLoop) /\ WF_vars(Notify \/ Join) /\ WF_vars(Tick)

-----------------------------------------------------------------------------
(* Properties *)

TypeOK ==
    /\ slots \in Seq(Workers) /\ hung \in Seq(Workers) /\ suspects \subseteq Workers
    /\ slot \in [Workers -> Ages \cup {Idle}] /\ age \in [Workers -> Ages \cup {Idle}]
    /\ \A w \in Workers : slot[w] # Idle <=> worker[w] \in {"task", "metrics"}
    /\ worker \in [Workers -> {"new", "idle", "task", "metrics", "gone"}]
    /\ fresh \in BOOLEAN /\ timedOut \in BOOLEAN /\ shutdown \in BOOLEAN
    /\ dog \in {"none", "start", "wait", "woken", "scan", "report", "ended"}
    /\ left \in 0 .. Interval /\ since \in 0 .. MaxLag /\ next \in 1 .. Len(slots) + 1
    /\ owner \in {"up", "notify", "join", "returned"}

\* No false alarm: who is reported was over the threshold when the clock was read, also
\* if it has finished, or begun its next task, by the time its slot is read.
HungWereStuck == dog \in {"scan", "report"} => \A i \in DOMAIN hung : hung[i] \in suspects

\* A scan overlooks nobody: who is over the threshold and was so when the clock was
\* read is to be reported, as soon as its slot was read.
ScanComplete ==
    dog = "scan" => \A i \in 1 .. next - 1 :
                        age[slots[i]] # Idle /\ age[slots[i]] >= since + Threshold
                            => \E j \in DOMAIN hung : hung[j] = slots[i]

\* What a scan reports is exactly who was stuck when the clock was read and still is.
ScanExact == HungWereStuck /\ ScanComplete

\* A worker that stays in its task is reported, and again after each report, until the
\* watchdog ends.
HangReported ==
    \A w \in Workers :
        age[w] = Oldest /\ dog # "none"
            ~> \/ dog = "report" /\ hung # <<>> /\ Head(hung) = w
               \/ age[w] # Oldest \/ dog = "ended"

\* HangInfo: a hang is reported at every interval while it persists; so the watchdog
\* ends only with the monitor.
WatchdogStays == dog = "ended" => shutdown

\* A drop returns, whatever the watchdog was doing when it was notified.
DropReturns == shutdown ~> owner = "returned"

\* The watchdog does its work while there is a monitor and ends with it.
MonitorLive == HangReported /\ DropReturns
=============================================================================

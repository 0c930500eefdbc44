------------------------- MODULE IoTaskRunner_proofs -------------------------
(* Theorems about IoTaskRunner, for every value of its constants. *)
EXTENDS IoTaskRunner, WellFoundedInduction, SequenceTheorems, TLAPS

-----------------------------------------------------------------------------
(* What the operators of FdWatch return *)

LEMMA UnregisterFacts ==
    ASSUME NEW w \in Table, NEW f \in Fds, NEW g \in Nat
    PROVE  /\ Unregister(w, f, g) \in Table
           /\ Unregister(w, f, g).next = w.next
           /\ Unregister(w, f, g).ctl = w.ctl
           /\ \A h \in Fds : \/ Unregister(w, f, g).entry[h] = w.entry[h]
                             \/ /\ Unregister(w, f, g).entry[h] = NoEntry
                                /\ h = f /\ w.entry[f].generation = g
BY DEF Unregister, Removed, Table, Directions

LEMMA StopFacts ==
    ASSUME NEW w \in Table, NEW c \in Controllers
    PROVE  /\ Stop(w, c) \in Table
           /\ Stop(w, c).next = w.next
           /\ \A h \in Fds :
                 \/ Stop(w, c).entry[h] = w.entry[h]
                 \/ /\ Stop(w, c).entry[h] = NoEntry
                    /\ w.ctl[c] = [fd |-> h, generation |-> w.entry[h].generation]
                    /\ Stop(w, c).ctl[c] = Unbound
<1>1. CASE ~IsWatching(w, c)
  BY <1>1 DEF Stop
<1>2. CASE IsWatching(w, c)
  <2> DEFINE u == [w EXCEPT !.ctl[c] = Unbound]
  <2>1. w.ctl[c] \in [fd : Fds, generation : Nat]
    BY <1>2 DEF Table, IsWatching
  <2>2. u \in Table /\ u.next = w.next /\ u.entry = w.entry /\ u.ctl[c] = Unbound
    BY DEF Table
  <2>3. Stop(w, c) = Unregister(u, w.ctl[c].fd, w.ctl[c].generation)
    BY <1>2 DEF Stop
  <2> HIDE DEF u
  <2>4. PICK f \in Fds, g \in Nat : w.ctl[c] = [fd |-> f, generation |-> g]
    BY <2>1
  <2>5. Stop(w, c) = Unregister(u, f, g)
    BY <2>3, <2>4
  <2> DEFINE v == Unregister(u, f, g)
  <2>6. /\ v \in Table /\ v.next = w.next /\ v.ctl[c] = Unbound
        /\ \A h \in Fds : \/ v.entry[h] = w.entry[h]
                          \/ v.entry[h] = NoEntry /\ h = f /\ w.entry[f].generation = g
    BY <2>2, UnregisterFacts
  <2> HIDE DEF v
  <2> QED BY <2>4, <2>5, <2>6 DEF v
<1> QED BY <1>1, <1>2

LEMMA ArmFacts ==
    ASSUME NEW w \in Table, NEW f \in Fds, NEW m \in Modes
    PROVE  /\ Arm(w, f, m) \in Table
           /\ Arm(w, f, m).entry = w.entry /\ Arm(w, f, m).next = w.next
BY DEF Arm, Table, Events, Modes, Directions

LEMMA DrawFacts ==
    ASSUME NEW w \in Table
    PROVE  /\ Draw(w) \in Table
           /\ Draw(w).entry = w.entry /\ Draw(w).next = w.next + 1
BY DEF Draw, Table

LEMMA InsertFacts ==
    ASSUME NEW w \in Table, NEW c \in Controllers, NEW f \in Fds, NEW e \in Entry
    PROVE  /\ Insert(w, c, f, e) \in Table
           /\ Insert(w, c, f, e).next = w.next
           /\ Insert(w, c, f, e).entry[f] = e
           /\ \A h \in Fds \ {f} : Insert(w, c, f, e).entry[h] = w.entry[h]
BY DEF Insert, Table, Entry

LEMMA ExtractFacts ==
    ASSUME NEW w \in Table, NEW f \in Fds, w.entry[f] # NoEntry
    PROVE  /\ Extract(w, f) \in Table
           /\ Extract(w, f).next = w.next
           /\ \A h \in Fds \ {f} : Extract(w, f).entry[h] = w.entry[h]
           /\ Extract(w, f).entry[f] = IF w.entry[f].persistent THEN w.entry[f] ELSE NoEntry
BY DEF Extract, Removed, Table, Directions

-----------------------------------------------------------------------------
(* Types *)

\* What a thread carries at each point of a call, and the loop in a callback.
Control ==
    /\ \A th \in Threads :
          /\ pc[th] = "push" => /\ arg[th].task \in Tasks
                                /\ arg[th].task \in Delayed => arg[th] \in DelayedArgs
          /\ pc[th] \in Watching => arg[th].ctl \in Controllers
          /\ pc[th] \in {"mod", "insert"} => arg[th].generation \in Nat
    /\ loop \in {"read", "write"} => event \in EventLocals

Typed == TypeOK /\ Control

LEMMA InitTyped == Init => Typed
<1> SUFFICES ASSUME Init PROVE Typed
  OBVIOUS
<1> USE IoAssumption
<1>1. table \in Table
  BY DEF Init, EmptyTable, Table, Directions
<1>2. TypeOK
  <2>1. tasks \in Seq(Tasks) /\ delayed \subseteq DelayedArgs /\ gone \subseteq Watchers
    BY EmptySeq DEF Init
  <2>2. shutdown \in BOOLEAN /\ handle \in BOOLEAN /\ signalled \in BOOLEAN
    BY Zenon DEF Init
  <2>3. timeout \in -1 .. MaxMs /\ now \in Nat /\ since \in Nat
    BY DEF Init
  <2>4. loop \in LoopPCs /\ pc \in [Threads -> CallPCs \cup StopPCs]
    BY DEF Init, LoopPCs, CallPCs
  <2>5. NoArg \in Args
    BY DEF Args, NoArg
  <2>6. arg \in [Threads -> Args]
    BY <2>5 DEF Init
  <2>7. readiness \in [Fds -> SUBSET {"in", "out", "hup"}]
    BY DEF Init
  <2>8. /\ joiner \in Stoppers \cup {NoThread} /\ running \in Tasks \cup {NoTask}
        /\ event \in EventLocals \cup {NoEvent} /\ fresh \subseteq Tasks
        /\ batch \subseteq [fd : Fds \cup {WakeFd}, flags : SUBSET {"in", "out", "hup"}]
    BY DEF Init
  <2> QED BY <1>1, <2>1, <2>2, <2>3, <2>4, <2>6, <2>7, <2>8 DEF TypeOK
<1>3. Control
  BY DEF Init, Control, Watching
<1> QED BY <1>2, <1>3 DEF Typed

LEMMA PostTyped ==
    ASSUME Typed, NEW th \in Threads, NEW t \in Tasks, Post(th, t)
    PROVE  Typed'
<1> USE IoAssumption DEF Typed, Post
<1>1. now + Delay[t] \in Nat \/ t \notin Delayed
  BY DEF TypeOK
<1>2. arg' \in [Threads -> Args]
  BY <1>1 DEF TypeOK, Args, DelayedArgs
<1>3. pc' \in [Threads -> CallPCs \cup StopPCs]
  BY DEF TypeOK, Goto, CallPCs
<1>4. TypeOK'
  BY <1>2, <1>3 DEF TypeOK, queueVars, watchVars, stopVars, kernelVars, loopVars
<1>5. Control'
  <2> SUFFICES ASSUME ~shutdown
               PROVE  Control'
    BY DEF Control, loopVars
  <2>1. arg'[th].task = t /\ (t \in Delayed => arg'[th] \in DelayedArgs)
    BY <1>1 DEF TypeOK, DelayedArgs
  <2> QED BY <2>1 DEF TypeOK, Control, Goto, loopVars, Watching
<1> QED BY <1>4, <1>5

LEMMA PushTyped ==
    ASSUME Typed, NEW th \in Threads, Push(th)
    PROVE  Typed'
<1> USE IoAssumption DEF Typed, Push
<1>1. arg[th].task \in Tasks /\ (arg[th].task \in Delayed => arg[th] \in DelayedArgs)
  BY DEF Control
<1>2. tasks' \in Seq(Tasks) /\ delayed' \subseteq DelayedArgs
  <2>1. tasks \in Seq(Tasks) /\ delayed \subseteq DelayedArgs
    BY DEF TypeOK
  <2>2. CASE arg[th].task \in Delayed
    BY <1>1, <2>1, <2>2 DEF Enqueue
  <2>3. CASE arg[th].task \notin Delayed
    <3>1. tasks' = Append(tasks, arg[th].task) /\ delayed' = delayed
      BY <2>3 DEF Enqueue
    <3> QED BY <1>1, <2>1, <3>1, AppendProperties
  <2> QED BY <2>2, <2>3
<1>3. arg' \in [Threads -> Args]
  BY DEF TypeOK, Args, NoArg
<1>4. pc' \in [Threads -> CallPCs \cup StopPCs]
  BY DEF TypeOK, Goto, CallPCs
<1>5. TypeOK'
  BY <1>2, <1>3, <1>4 DEF TypeOK, watchVars, stopVars, kernelVars, loopVars
<1>6. Control'
  BY DEF TypeOK, Control, Goto, loopVars, Watching
<1> QED BY <1>5, <1>6

LEMMA WakeTyped ==
    ASSUME Typed, NEW th \in Threads, Wake(th)
    PROVE  Typed'
<1> USE DEF Typed, Wake
<1>1. pc' \in [Threads -> CallPCs \cup StopPCs] /\ signalled' \in BOOLEAN
  BY DEF TypeOK, Goto, CallPCs
<1>2. TypeOK'
  BY <1>1 DEF TypeOK, queueVars, watchVars, stopVars, loopVars
<1>3. Control'
  BY DEF TypeOK, Control, Goto, loopVars, Watching
<1> QED BY <1>2, <1>3

\* The steps of threads that watch or stop watching: what they do to the table.
LEMMA StopWatchingTyped ==
    ASSUME Typed, NEW th \in Threads, NEW c \in Controllers, StopWatching(th, c)
    PROVE  Typed'
<1> USE DEF Typed, StopWatching
<1>1. table' \in Table
  BY StopFacts DEF TypeOK
<1>2. TypeOK'
  BY <1>1 DEF TypeOK, queueVars, stopVars, kernelVars, loopVars, callVars
<1>3. Control'
  BY DEF Control, loopVars, callVars
<1> QED BY <1>2, <1>3

LEMMA WatchTyped ==
    ASSUME Typed, NEW th \in Threads, NEW c \in Controllers, Watch(th, c)
    PROVE  Typed'
<1> USE DEF Typed, Watch
<1>1. table' \in Table
  BY StopFacts DEF TypeOK
<1>2. arg' \in [Threads -> Args]
  BY DEF TypeOK, Args
<1>3. pc' \in [Threads -> CallPCs \cup StopPCs]
  BY DEF TypeOK, Goto, CallPCs, Watching
<1>4. TypeOK'
  BY <1>1, <1>2, <1>3 DEF TypeOK, queueVars, stopVars, kernelVars, loopVars
<1>5. Control'
  BY DEF TypeOK, Control, Goto, loopVars, Watching
<1> QED BY <1>4, <1>5

LEMMA AddWatchTyped ==
    ASSUME Typed, NEW th \in Threads, AddWatch(th)
    PROVE  Typed'
<1> USE IoAssumption DEF Typed, AddWatch
<1> DEFINE c == arg[th].ctl
<1>1. c \in Controllers /\ FdOf[c] \in Fds /\ ModeOf[c] \in Modes /\ table.next \in Nat
  BY DEF TypeOK, Control, Watching, Table
<1>2. /\ table' \in Table
      /\ \/ arg' = [arg EXCEPT ![th] = NoArg] /\ pc' = [pc EXCEPT ![th] = "idle"]
         \/ /\ arg' = [arg EXCEPT ![th] = [ctl |-> c, generation |-> table.next]]
            /\ \/ pc' = [pc EXCEPT ![th] = "insert"]
               \/ pc' = [pc EXCEPT ![th] = "mod"]
  BY <1>1, DrawFacts, ArmFacts DEF TypeOK, Goto
<1> HIDE DEF c
<1>3. arg' \in [Threads -> Args]
  <2>1. NoArg \in Args /\ [ctl |-> c, generation |-> table.next] \in Args
    BY <1>1 DEF Args, NoArg
  <2>2. arg \in [Threads -> Args]
    BY DEF TypeOK
  <2> QED BY <1>2, <2>1, <2>2
<1>4. pc' \in [Threads -> CallPCs \cup StopPCs]
  BY <1>2 DEF TypeOK, CallPCs, Watching
<1>5. TypeOK'
  BY <1>2, <1>3, <1>4 DEF TypeOK, queueVars, stopVars, kernelVars, loopVars
<1>6. Control'
  <2>1. pc \in [Threads -> CallPCs \cup StopPCs] /\ arg \in [Threads -> Args]
    BY DEF TypeOK
  <2>2. CASE arg' = [arg EXCEPT ![th] = NoArg] /\ pc' = [pc EXCEPT ![th] = "idle"]
    BY <2>1, <2>2 DEF Control, loopVars, Watching
  <2>3. CASE /\ arg' = [arg EXCEPT ![th] = [ctl |-> c, generation |-> table.next]]
             /\ pc' \in {[pc EXCEPT ![th] = "insert"], [pc EXCEPT ![th] = "mod"]}
    BY <1>1, <2>1, <2>3 DEF Control, loopVars, Watching
  <2> QED BY <1>2, <2>2, <2>3
<1> QED BY <1>5, <1>6

LEMMA ModWatchTyped ==
    ASSUME Typed, NEW th \in Threads, ModWatch(th)
    PROVE  Typed'
<1> USE IoAssumption DEF Typed, ModWatch
<1>1. /\ arg[th].ctl \in Controllers
      /\ FdOf[arg[th].ctl] \in Fds /\ ModeOf[arg[th].ctl] \in Modes
  BY DEF TypeOK, Control, Watching
<1>2. /\ table' \in Table
      /\ \/ arg' = [arg EXCEPT ![th] = NoArg] /\ pc' = [pc EXCEPT ![th] = "idle"]
         \/ arg' = arg /\ pc' = [pc EXCEPT ![th] = "insert"]
  BY <1>1, ArmFacts DEF TypeOK, Goto
<1>3. arg' \in [Threads -> Args]
  <2>1. NoArg \in Args /\ arg \in [Threads -> Args]
    BY DEF TypeOK, Args, NoArg
  <2> QED BY <1>2, <2>1
<1>4. pc' \in [Threads -> CallPCs \cup StopPCs]
  BY <1>2 DEF TypeOK, CallPCs, Watching
<1>5. TypeOK'
  BY <1>2, <1>3, <1>4 DEF TypeOK, queueVars, stopVars, kernelVars, loopVars
<1>6. Control'
  BY <1>1, <1>2 DEF TypeOK, Control, loopVars, Watching
<1> QED BY <1>5, <1>6

LEMMA InsertWatchTyped ==
    ASSUME Typed, NEW th \in Threads, InsertWatch(th)
    PROVE  Typed'
<1> USE IoAssumption DEF Typed, InsertWatch
<1> DEFINE c == arg[th].ctl
           e == [watcher |-> WatcherOf[c], mode |-> ModeOf[c],
                 persistent |-> c \in Persistent, generation |-> arg[th].generation]
<1>1. c \in Controllers /\ FdOf[c] \in Fds /\ arg[th].generation \in Nat
  BY DEF TypeOK, Control, Watching
<1>2. e \in Entry
  BY <1>1 DEF Entry
<1>3. table' = Insert(table, c, FdOf[c], e)
  OBVIOUS
<1> HIDE DEF c, e
<1>4. table' \in Table
  BY <1>1, <1>2, <1>3, InsertFacts DEF TypeOK
<1>5. arg' \in [Threads -> Args]
  BY DEF TypeOK, Args, NoArg
<1>6. pc' \in [Threads -> CallPCs \cup StopPCs]
  BY DEF TypeOK, Goto, CallPCs
<1>7. TypeOK'
  BY <1>4, <1>5, <1>6 DEF TypeOK, queueVars, stopVars, kernelVars, loopVars
<1>8. Control'
  BY DEF TypeOK, Control, Goto, loopVars, Watching
<1> QED BY <1>7, <1>8

LEMMA StopStepTyped ==
    ASSUME Typed, NEW th \in Stoppers, BeginShutdown(th) \/ StopStep(th)
    PROVE  Typed'
<1> USE IoAssumption DEF Typed
<1>0. th \in Threads /\ pc \in [Threads -> CallPCs \cup StopPCs]
  BY DEF Threads, TypeOK
<1>1. /\ shutdown' \in BOOLEAN /\ handle' \in BOOLEAN /\ signalled' \in BOOLEAN
      /\ joiner' \in Stoppers \cup {NoThread}
  <2>1. /\ shutdown' \in {shutdown, TRUE} /\ handle' \in {handle, FALSE}
        /\ signalled' \in {signalled, TRUE} /\ joiner' \in {joiner, th, NoThread}
    BY DEF BeginShutdown, StopStep, WakeToStop, TakeHandle, Join, stopVars, kernelVars
  <2>2. /\ shutdown \in BOOLEAN /\ handle \in BOOLEAN /\ signalled \in BOOLEAN
        /\ joiner \in Stoppers \cup {NoThread}
    BY DEF TypeOK
  <2> QED BY <2>1, <2>2
<1>2. \E l \in StopPCs : pc' = [pc EXCEPT ![th] = l]
  BY DEF BeginShutdown, StopStep, WakeToStop, TakeHandle, Join, Goto, StopPCs
<1>3. /\ UNCHANGED <<tasks, delayed, table, gone, loop, running, event, batch, timeout,
                     since, arg, fresh, readiness, now>>
  BY DEF BeginShutdown, StopStep, WakeToStop, TakeHandle, Join, queueVars, watchVars,
         kernelVars, loopVars
<1>4. pc' \in [Threads -> CallPCs \cup StopPCs]
  BY <1>0, <1>2
<1>5. TypeOK'
  BY <1>1, <1>3, <1>4 DEF TypeOK
<1>6. Control'
  BY <1>0, <1>2, <1>3 DEF Control, Watching, StopPCs
<1> QED BY <1>5, <1>6

\* Steps that touch neither the calls in progress nor the table.
LEMMA EnvironmentTyped ==
    ASSUME Typed,
           \/ \E x \in Watchers : DropWatcher(x)
           \/ \E fd \in Fds, x \in Directions \cup {"hup"} : ReadinessChanges(fd, x)
           \/ Tick
    PROVE  Typed'
<1> USE DEF Typed
<1>1. gone' \subseteq Watchers /\ now' \in Nat
  BY DEF TypeOK, DropWatcher, ReadinessChanges, Tick, watchVars, kernelVars
<1>2. readiness' \in [Fds -> SUBSET {"in", "out", "hup"}]
  BY DEF TypeOK, DropWatcher, ReadinessChanges, Tick, Directions, kernelVars
<1>3. UNCHANGED <<queueVars, table, stopVars, signalled, loopVars, callVars>>
  BY DEF DropWatcher, ReadinessChanges, Tick, watchVars, kernelVars
<1>4. TypeOK'
  BY <1>1, <1>2, <1>3 DEF TypeOK, queueVars, stopVars, loopVars, callVars
<1>5. Control'
  BY <1>3 DEF Control, loopVars, callVars
<1> QED BY <1>4, <1>5

LEMMA Least ==
    ASSUME NEW D, D \subseteq Nat, D # {}
    PROVE  \E n \in D : \A m \in D : n <= m
<1> DEFINE R == OpToRel(<, Nat)
<1>1. IsWellFoundedOn(R, Nat)
  BY NatLessThanWellFounded
<1>2. \A m, n \in Nat : <<m, n>> \notin R => n <= m
  BY DEF OpToRel
<1> HIDE DEF R
<1>3. \E n \in D : \A m \in D : <<m, n>> \notin R
  BY <1>1, WFMin
<1> QED BY <1>2, <1>3

LEMMA MillisecondsFit ==
    ASSUME NEW a \in Nat, NEW b \in Nat \ {0}
    PROVE  a \div b \in Nat /\ (a \div b) * b <= a
BY Z3

LEMMA FewerMilliseconds ==
    ASSUME NEW a \in Nat, NEW c \in Nat, NEW b \in Nat, a <= c
    PROVE  a * b <= c * b
BY Z3

\* Rounded down, the time left ends at the first deadline or before it.
LEMMA MsLeftFits ==
    ASSUME Typed, delayed # {}, \A d \in delayed : d.deadline > now
    PROVE  MsLeft \in Nat /\ \A d \in delayed : now + MsLeft * TicksPerMs <= d.deadline
<1> USE IoAssumption
<1>1. now \in Nat /\ TicksPerMs \in Nat \ {0} /\ \A d \in delayed : d.deadline \in Nat
  BY DEF Typed, TypeOK, DelayedArgs
<1>2. Earliest # {}
  <2> DEFINE D == {d.deadline : d \in delayed}
  <2>1. D \subseteq Nat /\ D # {}
    BY <1>1
  <2>2. \E n \in D : \A m \in D : n <= m
    BY <2>1, Least
  <2> QED BY <2>2 DEF Earliest
<1>3. PICK d \in Earliest : MsLeft = (d.deadline - now) \div TicksPerMs
  BY <1>2 DEF MsLeft
<1>4. d.deadline - now \in Nat /\ \A e \in delayed : d.deadline <= e.deadline
  BY <1>1 DEF Earliest
<1>5. MsLeft \in Nat /\ MsLeft * TicksPerMs <= d.deadline - now
  BY <1>1, <1>3, <1>4, MillisecondsFit
<1> DEFINE x == MsLeft * TicksPerMs
<1>6. x \in Nat /\ x <= d.deadline - now
  BY <1>1, <1>5
<1> HIDE DEF x
<1>7. d.deadline \in Nat
  BY <1>1 DEF Earliest
<1>8. \A e \in delayed : now + x <= e.deadline
  BY <1>1, <1>4, <1>6, <1>7
<1> QED BY <1>5, <1>8 DEF x

\* The timeout is an i32: the first deadline lies ahead and the rest is clamped.
LEMMA TimeoutTyped ==
    ASSUME Typed, ComputeTimeout
    PROVE  timeout' \in -1 .. MaxMs
<1> USE IoAssumption DEF Typed, ComputeTimeout, SetTimeout
<1>1. CASE delayed = {} \/ \E d \in delayed : d.deadline <= now
  BY <1>1
<1>2. CASE delayed # {} /\ \A d \in delayed : d.deadline > now
  BY <1>2, MsLeftFits DEF TypeOK, DelayedArgs
<1> QED BY <1>1, <1>2 DEF TypeOK, DelayedArgs

\* Steps of the loop that only move it on.
LEMMA LoopMovesTyped ==
    ASSUME Typed, EndTask \/ CheckShutdown \/ Interrupted \/ EndBatch \/ ComputeTimeout
    PROVE  Typed'
<1> USE DEF Typed
<1>1. timeout' \in -1 .. MaxMs
  <2>1. timeout' \in {timeout, -1} \/ ComputeTimeout
    BY DEF EndTask, CheckShutdown, Interrupted, EndBatch
  <2>2. MaxMs \in Nat /\ timeout \in -1 .. MaxMs
    BY IoAssumption DEF TypeOK
  <2> QED BY <2>1, <2>2, TimeoutTyped
<1>2. since' \in Nat /\ running' \in Tasks \cup {NoTask}
  BY DEF TypeOK, EndTask, CheckShutdown, Interrupted, EndBatch, ComputeTimeout,
         SetTimeout
<1>3. loop' \in {"drain", "delayed", "exited", "timeout", "wait"}
  BY DEF EndTask, CheckShutdown, Interrupted, EndBatch, ComputeTimeout, SetTimeout,
         LoopGoto
<1>4. UNCHANGED <<queueVars, watchVars, stopVars, kernelVars, event, batch, callVars>>
  BY DEF EndTask, CheckShutdown, Interrupted, EndBatch, ComputeTimeout, SetTimeout
<1>5. TypeOK'
  BY <1>1, <1>2, <1>3, <1>4
     DEF TypeOK, LoopPCs, queueVars, watchVars, stopVars, kernelVars, callVars
<1>6. Control'
  BY <1>3, <1>4 DEF Control, callVars
<1> QED BY <1>5, <1>6

LEMMA RunTaskTyped ==
    ASSUME Typed, DrainTasks \/ RunDelayed
    PROVE  Typed'
<1> USE DEF Typed
<1>1. /\ tasks' \in Seq(Tasks) /\ delayed' \subseteq DelayedArgs
      /\ running' \in Tasks \cup {NoTask}
      /\ loop' \in {"delayed", "task", "check", "late"}
  <2>1. /\ tasks \in Seq(Tasks) /\ delayed \subseteq DelayedArgs
        /\ running \in Tasks \cup {NoTask}
    BY DEF TypeOK
  <2>2. CASE DrainTasks
    <3>1. CASE tasks = <<>>
      BY <2>1, <2>2, <3>1 DEF DrainTasks, LoopGoto
    <3>2. CASE tasks # <<>>
      BY <2>1, <2>2, <3>2, HeadTailProperties DEF DrainTasks, LoopGoto
    <3> QED BY <3>1, <3>2
  <2>3. CASE RunDelayed
    <3>1. CASE UNCHANGED <<delayed, running>>
      BY <2>1, <2>3, <3>1 DEF RunDelayed, LoopGoto
    <3>2. CASE \E d \in Earliest :
                  delayed' = delayed \ {d} /\ running' = d.task /\ loop' = "late"
      BY <2>1, <2>3, <3>2, IoAssumption DEF RunDelayed, Earliest, DelayedArgs
    <3> QED BY <2>3, <3>1, <3>2 DEF RunDelayed, LoopGoto
  <2> QED BY <2>2, <2>3
<1>2. UNCHANGED <<watchVars, stopVars, kernelVars, event, batch, timeout, since, callVars>>
  BY DEF DrainTasks, RunDelayed
<1>3. TypeOK'
  BY <1>1, <1>2
     DEF TypeOK, LoopPCs, Callbacks, watchVars, stopVars, kernelVars, callVars
<1>4. Control'
  BY <1>1, <1>2 DEF Control, callVars
<1> QED BY <1>3, <1>4

LEMMA EpollWaitTyped ==
    ASSUME Typed, EpollWait
    PROVE  Typed'
<1> USE DEF Typed, EpollWait
<1>1. Reports \subseteq [fd : Fds \cup {WakeFd}, flags : SUBSET {"in", "out", "hup"}]
  BY DEF TypeOK, Reports, Flags
<1>2. timeout' \in -1 .. MaxMs /\ since' \in Nat
  BY IoAssumption
<1>3. TypeOK'
  BY <1>1, <1>2 DEF TypeOK, LoopGoto, LoopPCs, queueVars, watchVars, stopVars, kernelVars,
                    callVars
<1>4. Control'
  BY DEF Control, LoopGoto, callVars
<1> QED BY <1>3, <1>4

LEMMA ReadWakeTyped ==
    ASSUME Typed, NEW ev \in batch, ReadWake(ev)
    PROVE  Typed'
<1> USE DEF Typed, ReadWake
<1>1. TypeOK'
  BY DEF TypeOK, queueVars, watchVars, stopVars, callVars
<1>2. Control'
  BY DEF Control, callVars
<1> QED BY <1>1, <1>2

LEMMA DispatchTyped ==
    ASSUME Typed, NEW ev \in batch, Dispatch(ev)
    PROVE  Typed'
<1> USE DEF Typed
<1> DEFINE e == table.entry[ev.fd]
<1>1. ev.fd \in Fds /\ e \in Entry \cup {NoEntry} /\ table \in Table
  BY DEF Dispatch, TypeOK, Table
<1>2. table' \in Table
  BY <1>1, ExtractFacts DEF Dispatch
<1>3. \/ UNCHANGED <<loop, event>>
      \/ loop' \in {"read", "write"} /\ event' \in EventLocals
  <2> DEFINE w == CanWrite(e, ev.flags)
  <2>1. w \in BOOLEAN
    BY Zenon DEF CanWrite
  <2>2. \/ UNCHANGED <<loop, event>>
        \/ /\ loop' \in {"read", "write"} /\ e # NoEntry
           /\ event' = [fd |-> ev.fd, entry |-> e, write |-> w]
    BY DEF Dispatch, LoopGoto
  <2> HIDE DEF w
  <2> QED BY <1>1, <2>1, <2>2 DEF EventLocals
<1>4. batch' \subseteq batch
  BY DEF Dispatch
<1>5. UNCHANGED <<queueVars, gone, stopVars, kernelVars, running, timeout, since, callVars>>
  BY DEF Dispatch
<1>6. TypeOK'
  BY <1>2, <1>3, <1>4, <1>5
     DEF TypeOK, LoopPCs, Callbacks, queueVars, stopVars, kernelVars, callVars
<1>7. Control'
  BY <1>3, <1>5 DEF Control, callVars
<1> QED BY <1>6, <1>7

LEMMA EndCallbackTyped ==
    ASSUME Typed, EndRead \/ EndWrite
    PROVE  Typed'
<1> USE DEF Typed
<1>1. \/ loop' = "write" /\ event' = event /\ event \in EventLocals
      \/ loop' = "batch" /\ event' = NoEvent
  BY DEF EndRead, EndWrite, LoopGoto, Control
<1>2. UNCHANGED <<queueVars, watchVars, stopVars, kernelVars, running, timeout, since,
                  callVars, batch>>
  BY DEF EndRead, EndWrite
<1>3. TypeOK'
  BY <1>1, <1>2
     DEF TypeOK, LoopPCs, Callbacks, queueVars, watchVars, stopVars, kernelVars, callVars
<1>4. Control'
  BY <1>1, <1>2 DEF Control, callVars
<1> QED BY <1>3, <1>4

LEMMA StutterTyped ==
    ASSUME Typed, UNCHANGED vars
    PROVE  Typed'
<1>1. TypeOK'
  BY DEF Typed, TypeOK, vars, queueVars, watchVars, stopVars, kernelVars, loopVars, callVars
<1>2. Control'
  BY DEF Typed, Control, vars, loopVars, callVars
<1> QED BY <1>1, <1>2 DEF Typed

LEMMA TypedInvariant == Spec => []Typed
<1>1. Init => Typed
  BY InitTyped
<1>2. Typed /\ [Next]_vars => Typed'
  <2> SUFFICES ASSUME Typed, [Next]_vars PROVE Typed'
    OBVIOUS
  <2>1. CASE \E th \in Threads, t \in Tasks : Post(th, t)
    BY <2>1, PostTyped
  <2>2. CASE \E th \in Threads, c \in Controllers : StopWatching(th, c) \/ Watch(th, c)
    BY <2>2, StopWatchingTyped, WatchTyped
  <2>3. CASE \E th \in Threads : CallStep(th)
    BY <2>3, PushTyped, WakeTyped, AddWatchTyped, ModWatchTyped, InsertWatchTyped
       DEF CallStep
  <2>4. CASE \E th \in Stoppers : BeginShutdown(th) \/ StopStep(th)
    BY <2>4, StopStepTyped
  <2>5. CASE LoopStep \/ Interrupted
    BY <2>5, LoopMovesTyped, RunTaskTyped, EpollWaitTyped, ReadWakeTyped, DispatchTyped,
       EndCallbackTyped DEF LoopStep
  <2>6. CASE \/ \E x \in Watchers : DropWatcher(x)
             \/ \E fd \in Fds, x \in Directions \cup {"hup"} : ReadinessChanges(fd, x)
             \/ Tick
    BY <2>6, EnvironmentTyped
  <2>7. CASE Done \/ UNCHANGED vars
    BY <2>7, StutterTyped DEF Done
  <2> QED BY <2>1, <2>2, <2>3, <2>4, <2>5, <2>6, <2>7 DEF Next
<1> QED BY <1>1, <1>2, PTL DEF Spec

\* The variables of IoTaskRunner keep their types: in particular the timeout handed to
\* epoll_wait is an i32 that is negative only when it is -1 (439-453).
THEOREM TypeCorrect == Spec => []TypeOK
<1>1. Typed => TypeOK
  BY DEF Typed
<1> QED BY <1>1, TypedInvariant, PTL

-----------------------------------------------------------------------------
(* Sleeping *)

\* Only the read of the eventfd takes a wake-up away, and it is part of a batch.
LEMMA WakeKept ==
    ASSUME Typed, [Next]_vars, WakeComing
    PROVE  WakeComing' \/ (loop = "batch" /\ loop' = "batch")
<1>0. pc \in [Threads -> CallPCs \cup StopPCs] /\ Stoppers \subseteq Threads
  BY IoAssumption DEF Typed, TypeOK, Threads
<1>1. CASE UNCHANGED <<pc, signalled>>
  BY <1>1 DEF WakeComing
<1>2. CASE \E th \in Threads :
              \/ \E t \in Tasks : Post(th, t)
              \/ \E c \in Controllers : Watch(th, c)
  BY <1>0, <1>2 DEF Post, Watch, MayCall, MayUse, Goto, WakeComing, kernelVars
<1>3. CASE \E th \in Threads : CallStep(th)
  <2>1. PICK th \in Threads : CallStep(th)
    BY <1>3
  <2>2. CASE Wake(th)
    BY <2>2 DEF Wake, WakeComing
  <2>3. CASE Push(th)
    BY <1>0, <2>3 DEF Push, Goto, WakeComing, kernelVars
  <2>4. CASE AddWatch(th) \/ ModWatch(th) \/ InsertWatch(th)
    BY <1>0, <2>4 DEF AddWatch, ModWatch, InsertWatch, Goto, WakeComing, kernelVars
  <2> QED BY <2>1, <2>2, <2>3, <2>4 DEF CallStep
<1>4. CASE \E th \in Stoppers : BeginShutdown(th) \/ StopStep(th)
  <2>1. PICK th \in Stoppers : BeginShutdown(th) \/ StopStep(th)
    BY <1>4
  <2>2. CASE WakeToStop(th)
    BY <2>2 DEF WakeToStop, WakeComing
  <2>3. CASE BeginShutdown(th) \/ TakeHandle(th) \/ Join(th)
    BY <1>0, <2>3 DEF BeginShutdown, TakeHandle, Join, Goto, WakeComing, kernelVars
  <2> QED BY <2>1, <2>2, <2>3 DEF StopStep
<1>5. CASE \E ev \in batch : ReadWake(ev)
  BY <1>5 DEF ReadWake
<1>6. CASE \/ \E th \in Threads, c \in Controllers : StopWatching(th, c)
           \/ \E x \in Watchers : DropWatcher(x)
           \/ \E fd \in Fds, x \in Directions \cup {"hup"} : ReadinessChanges(fd, x)
           \/ Tick \/ Done
  BY <1>1, <1>6 DEF StopWatching, DropWatcher, ReadinessChanges, Tick, Done, kernelVars,
                    callVars, vars
<1>7. CASE \/ DrainTasks \/ RunDelayed \/ EndTask \/ CheckShutdown \/ ComputeTimeout
           \/ EpollWait \/ EndBatch \/ EndRead \/ EndWrite \/ Interrupted
           \/ \E ev \in batch : Dispatch(ev)
  <2>1. UNCHANGED <<kernelVars, callVars>>
    BY <1>7 DEF DrainTasks, RunDelayed, EndTask, CheckShutdown, ComputeTimeout,
                SetTimeout, EpollWait, EndBatch, EndRead, EndWrite, Interrupted, Dispatch
  <2> QED BY <1>1, <2>1 DEF kernelVars, callVars
<1>8. CASE UNCHANGED vars
  BY <1>1, <1>8 DEF vars, kernelVars, callVars
<1> QED BY <1>2, <1>3, <1>4, <1>5, <1>6, <1>7, <1>8 DEF Next, LoopStep

\* The loop never goes to sleep on a task it has not seen or a shutdown it has not
\* noticed (404-456), whoever posts or shuts down in between (281-282, 329-330, 347-348).
THEOREM NoLostWakeHolds == Spec => []NoLostWake
<1>1. Init => NoLostWake
  BY DEF Init, NoLostWake
<1>2. Typed /\ NoLostWake /\ [Next]_vars => NoLostWake'
  <2> SUFFICES ASSUME Typed, NoLostWake, [Next]_vars PROVE NoLostWake'
    OBVIOUS
  <2>0. pc \in [Threads -> CallPCs \cup StopPCs] /\ Stoppers \subseteq Threads
    BY IoAssumption DEF Typed, TypeOK, Threads
  <2>1. CASE UNCHANGED <<tasks, shutdown, loop>>
    BY <2>1, WakeKept DEF NoLostWake
  <2>2. CASE \E th \in Threads : Push(th)
    BY <2>0, <2>2 DEF Push, Goto, NoLostWake, WakeComing
  <2>3. CASE \E th \in Stoppers : BeginShutdown(th)
    BY <2>0, <2>3 DEF BeginShutdown, Goto, NoLostWake, WakeComing
  <2>4. CASE DrainTasks
    BY <2>4 DEF DrainTasks, LoopGoto, NoLostWake
  <2>5. CASE RunDelayed \/ EndTask \/ ComputeTimeout
    BY <2>5, WakeKept
       DEF RunDelayed, EndTask, ComputeTimeout, SetTimeout, LoopGoto, NoLostWake,
           stopVars, queueVars
  <2>6. CASE CheckShutdown
    BY <2>6, WakeKept DEF CheckShutdown, LoopGoto, NoLostWake, stopVars, queueVars
  <2>7. CASE \/ EpollWait \/ Interrupted \/ EndBatch \/ EndRead \/ EndWrite
             \/ \E ev \in batch : Dispatch(ev)
    BY <2>7, <2>1, SMTT(30) DEF EpollWait, Interrupted, EndBatch, EndRead, EndWrite, Dispatch,
                      LoopGoto, NoLostWake, stopVars, queueVars
  <2>8. CASE \/ \E th \in Threads :
                   \/ \E t \in Tasks : Post(th, t)
                   \/ \E c \in Controllers : StopWatching(th, c) \/ Watch(th, c)
                   \/ Wake(th) \/ AddWatch(th) \/ ModWatch(th) \/ InsertWatch(th)
             \/ \E th \in Stoppers : StopStep(th)
             \/ \E x \in Watchers : DropWatcher(x)
             \/ \E fd \in Fds, x \in Directions \cup {"hup"} : ReadinessChanges(fd, x)
             \/ Tick \/ Done \/ UNCHANGED vars \/ \E ev \in batch : ReadWake(ev)
    BY <2>8, <2>1 DEF Post, StopWatching, Watch, Wake, AddWatch, ModWatch, InsertWatch,
                      StopStep, WakeToStop, TakeHandle, Join, DropWatcher,
                      ReadinessChanges, Tick, Done, ReadWake, vars, queueVars, stopVars,
                      loopVars
  <2> QED BY <2>2, <2>3, <2>4, <2>5, <2>6, <2>7, <2>8 DEF Next, LoopStep, CallStep
<1> QED BY <1>1, <1>2, TypedInvariant, PTL DEF Spec

\* The timeout that ComputeTimeout hands to epoll_wait ends before the first deadline,
\* also when it was clamped to i32::MAX.
LEMMA TimeoutFits ==
    ASSUME Typed, ComputeTimeout
    PROVE  NeverOversleeps'
<1> USE IoAssumption DEF ComputeTimeout, SetTimeout
<1>0. UNCHANGED delayed /\ since' = now
  BY DEF queueVars
<1>1. CASE delayed = {}
  BY <1>0, <1>1 DEF NeverOversleeps
<1>2. CASE \E d \in delayed : d.deadline <= now
  BY <1>0, <1>2 DEF NeverOversleeps
<1>3. CASE delayed # {} /\ \A d \in delayed : ~(d.deadline <= now)
  <2>1. now \in Nat /\ \A d \in delayed : d.deadline \in Nat
    BY DEF Typed, TypeOK, DelayedArgs
  <2>2. MsLeft \in Nat /\ \A d \in delayed : now + MsLeft * TicksPerMs <= d.deadline
    BY <1>3, <2>1, MsLeftFits
  <2>3. timeout' \in Nat /\ timeout' <= MsLeft
    BY <1>3, <2>2
  <2>4. timeout' * TicksPerMs <= MsLeft * TicksPerMs
    BY <2>2, <2>3, FewerMilliseconds
  <2> DEFINE x == timeout' * TicksPerMs
             y == MsLeft * TicksPerMs
  <2>5. x \in Int /\ y \in Int /\ x <= y /\ \A d \in delayed : now + y <= d.deadline
    BY <2>2, <2>3, <2>4
  <2> HIDE DEF x, y
  <2>6. \A d \in delayed : now + x <= d.deadline
    BY <2>1, <2>5
  <2> QED BY <1>0, <2>3, <2>6 DEF NeverOversleeps, x
<1> QED BY <1>1, <1>2, <1>3

\* The loop does not sleep past a deadline (439-456), also not past that of a delayed
\* task pushed after the timeout was computed (329-330).
THEOREM NeverOversleepsHolds == Spec => []NeverOversleeps
<1>1. Init => NeverOversleeps
  BY DEF Init, NeverOversleeps
<1>2. Typed /\ NeverOversleeps /\ [Next]_vars => NeverOversleeps'
  <2> SUFFICES ASSUME Typed, NeverOversleeps, [Next]_vars PROVE NeverOversleeps'
    OBVIOUS
  <2>1. CASE UNCHANGED <<delayed, loop, timeout, since>>
    BY <2>1, WakeKept DEF NeverOversleeps
  <2>2. CASE \E th \in Threads : Push(th)
    <3>1. WakeComing'
      BY <2>2 DEF Push, Goto, WakeComing, Typed, TypeOK
    <3> QED BY <3>1 DEF NeverOversleeps
  <2>3. CASE ComputeTimeout
    BY <2>3, TimeoutFits
  <2>4. CASE \/ DrainTasks \/ RunDelayed \/ EndTask \/ CheckShutdown \/ EpollWait
             \/ Interrupted \/ EndBatch \/ EndRead \/ EndWrite
             \/ \E ev \in batch : ReadWake(ev) \/ Dispatch(ev)
    <3>1. loop' # "wait"
      BY <2>4, SMTT(30) DEF DrainTasks, RunDelayed, EndTask, CheckShutdown, EpollWait, Interrupted,
                  EndBatch, EndRead, EndWrite, ReadWake, Dispatch, LoopGoto
    <3> QED BY <3>1 DEF NeverOversleeps
  <2>5. CASE \/ \E th \in Threads :
                   \/ \E t \in Tasks : Post(th, t)
                   \/ \E c \in Controllers : StopWatching(th, c) \/ Watch(th, c)
                   \/ Wake(th) \/ AddWatch(th) \/ ModWatch(th) \/ InsertWatch(th)
             \/ \E th \in Stoppers : BeginShutdown(th) \/ StopStep(th)
             \/ \E x \in Watchers : DropWatcher(x)
             \/ \E fd \in Fds, x \in Directions \cup {"hup"} : ReadinessChanges(fd, x)
             \/ Tick \/ Done \/ UNCHANGED vars
    BY <2>1, <2>5
       DEF Post, StopWatching, Watch, Wake, AddWatch, ModWatch, InsertWatch,
           BeginShutdown, StopStep, WakeToStop, TakeHandle, Join, DropWatcher,
           ReadinessChanges, Tick, Done, vars, queueVars, loopVars
  <2> HIDE DEF NeverOversleeps
  <2> QED BY <2>2, <2>3, <2>4, <2>5, Zenon DEF Next, LoopStep, CallStep
<1> QED BY <1>1, <1>2, TypedInvariant, PTL DEF Spec

-----------------------------------------------------------------------------
(* shutdown *)

\* The mutex of thread_handle: one thread joins at a time, and it is free again, with
\* the handle taken, only when the IO thread is gone.
Joining ==
    /\ \A th \in Stoppers : pc[th] = "join" <=> joiner = th
    /\ ~handle /\ joiner = NoThread => loop = "exited"
    /\ \A th \in Stoppers : pc[th] = "returned" => loop = "exited"

\* A call of shutdown that returned leaves no IO thread behind (280-286), although only
\* one of several callers finds the join handle.
THEOREM JoinedMeansGoneHolds == Spec => []JoinedMeansGone
<1>1. Init => Joining
  BY IoAssumption DEF Init, Joining, Threads
<1>2. Typed /\ Joining /\ [Next]_vars => Joining'
  <2> SUFFICES ASSUME Typed, Joining, [Next]_vars PROVE Joining'
    OBVIOUS
  <2>0. /\ pc \in [Threads -> CallPCs \cup StopPCs] /\ Stoppers \subseteq Threads
        /\ NoThread \notin Stoppers
    BY IoAssumption DEF Typed, TypeOK, Threads
  <2>1. CASE \E th \in Threads, l \in CallPCs :
               /\ pc[th] \in CallPCs /\ pc' = [pc EXCEPT ![th] = l]
               /\ UNCHANGED <<handle, joiner, loop>>
    BY <2>0, <2>1 DEF Joining, CallPCs, Watching
  <2>2. CASE \E th \in Threads :
                \/ \E t \in Tasks : Post(th, t)
                \/ \E c \in Controllers : StopWatching(th, c) \/ Watch(th, c)
                \/ CallStep(th)
    <3>1. PICK th \in Threads :
              \/ \E t \in Tasks : Post(th, t)
              \/ \E c \in Controllers : StopWatching(th, c) \/ Watch(th, c)
              \/ CallStep(th)
      BY <2>2, SMTT(30)
    <3>2. pc[th] \in CallPCs /\ UNCHANGED <<handle, joiner, loop>>
      BY <3>1 DEF Post, StopWatching, Watch, CallStep, Push, Wake, AddWatch, ModWatch,
                  InsertWatch, MayUse, MayCall, CallPCs, Watching, stopVars, loopVars
    <3>3. \E l \in CallPCs : pc' = [pc EXCEPT ![th] = l] \/ UNCHANGED pc
      BY <3>1 DEF Post, StopWatching, Watch, CallStep, Push, Wake, AddWatch, ModWatch,
                  InsertWatch, Goto, CallPCs, Watching, callVars
    <3>4. CASE UNCHANGED pc
      BY <3>2, <3>4 DEF Joining
    <3> QED BY <2>1, <3>2, <3>3, <3>4
  <2>3. CASE \E th \in Stoppers : BeginShutdown(th) \/ StopStep(th)
    <3>1. PICK th \in Stoppers : BeginShutdown(th) \/ StopStep(th)
      BY <2>3
    <3>2. CASE BeginShutdown(th) \/ WakeToStop(th)
      BY <2>0, <3>2 DEF BeginShutdown, WakeToStop, Goto, Joining, stopVars, loopVars
    <3>3. CASE TakeHandle(th)
      <4>1. CASE handle
        BY <2>0, <3>3, <4>1 DEF TakeHandle, Goto, Joining, loopVars
      <4>2. CASE ~handle
        BY <2>0, <3>3, <4>2 DEF TakeHandle, Goto, Joining, loopVars
      <4> QED BY <4>1, <4>2
    <3>4. CASE Join(th)
      BY <2>0, <3>4 DEF Join, Goto, Joining, loopVars
    <3> QED BY <3>1, <3>2, <3>3, <3>4 DEF StopStep
  <2>4. CASE LoopStep \/ Interrupted
    <3>1. UNCHANGED <<stopVars, callVars>>
      BY <2>4 DEF LoopStep, DrainTasks, RunDelayed, EndTask, CheckShutdown,
                  ComputeTimeout, SetTimeout, EpollWait, EndBatch, EndRead, EndWrite,
                  Interrupted, ReadWake, Dispatch
    <3>2. loop # "exited"
      BY <2>4 DEF LoopStep, DrainTasks, RunDelayed, EndTask, CheckShutdown,
                  ComputeTimeout, SetTimeout, EpollWait, EndBatch, EndRead, EndWrite,
                  Interrupted, ReadWake, Dispatch
    <3> QED BY <3>1, <3>2 DEF Joining, stopVars, callVars
  <2>5. CASE UNCHANGED <<stopVars, loop, pc>>
    BY <2>5 DEF Joining, stopVars
  <2>6. CASE \/ \E x \in Watchers : DropWatcher(x)
             \/ \E fd \in Fds, x \in Directions \cup {"hup"} : ReadinessChanges(fd, x)
             \/ Tick \/ Done \/ UNCHANGED vars
    BY <2>5, <2>6 DEF DropWatcher, ReadinessChanges, Tick, Done, vars, loopVars, callVars
  <2> HIDE DEF Joining
  <2> QED BY <2>2, <2>3, <2>4, <2>6, Zenon DEF Next
<1>3. Joining => JoinedMeansGone
  BY DEF Joining, JoinedMeansGone
<1> QED BY <1>1, <1>2, <1>3, TypedInvariant, PTL DEF Spec

-----------------------------------------------------------------------------
(* Watches *)

\* A watch ends when the loop takes it for an event (488-494) or when the controller
\* that made it gives it up (61-65, 297-308): the generation keeps a controller whose
\* watch was replaced from ending the watch of another.
THEOREM OwnerEndsWatchHolds == Spec => OwnerEndsWatch
<1> DEFINE A == \A fd \in Fds :
                  table.entry[fd] # NoEntry /\ table'.entry[fd] = NoEntry =>
                      \/ loop = "batch" /\ batch' # batch
                      \/ \E c \in Controllers :
                            /\ table.ctl[c] = [fd |-> fd,
                                               generation |-> table.entry[fd].generation]
                            /\ table'.ctl[c] = Unbound
<1>1. Typed /\ [Next]_vars => A
  <2> SUFFICES ASSUME Typed, [Next]_vars PROVE A
    OBVIOUS
  <2>0. table \in Table
    BY DEF Typed, TypeOK
  <2>1. CASE UNCHANGED table
    BY <2>1
  <2>2. CASE \E th \in Threads, c \in Controllers : StopWatching(th, c) \/ Watch(th, c)
    <3>1. PICK c \in Controllers : table' = Stop(table, c)
      BY <2>2 DEF StopWatching, Watch
    <3> QED BY <2>0, <3>1, StopFacts
  <2>3. CASE \E ev \in batch : Dispatch(ev)
    BY <2>3 DEF Dispatch
  <2>4. CASE \E th \in Threads : AddWatch(th) \/ ModWatch(th)
    <3>1. PICK th \in Threads : AddWatch(th) \/ ModWatch(th)
      BY <2>4
    <3>2. FdOf[arg[th].ctl] \in Fds /\ ModeOf[arg[th].ctl] \in Modes
      BY <3>1, IoAssumption DEF AddWatch, ModWatch, Typed, TypeOK, Control, Watching
    <3>3. table'.entry = table.entry
      BY <2>0, <3>1, <3>2, DrawFacts, ArmFacts DEF AddWatch, ModWatch
    <3> QED BY <3>3
  <2>5. CASE \E th \in Threads : InsertWatch(th)
    <3>1. PICK th \in Threads : InsertWatch(th)
      BY <2>5
    <3> DEFINE e == [watcher |-> WatcherOf[arg[th].ctl], mode |-> ModeOf[arg[th].ctl],
                     persistent |-> arg[th].ctl \in Persistent,
                     generation |-> arg[th].generation]
    <3>2. arg[th].ctl \in Controllers /\ arg[th].generation \in Nat
      BY <3>1 DEF InsertWatch, Typed, Control, Watching
    <3>3. FdOf[arg[th].ctl] \in Fds /\ e \in Entry
      BY <3>2, IoAssumption DEF Entry
    <3>4. table' = Insert(table, arg[th].ctl, FdOf[arg[th].ctl], e)
      BY <3>1 DEF InsertWatch
    <3> HIDE DEF e
    <3>5. e # NoEntry
      BY <3>3, IoAssumption
    <3> QED BY <2>0, <3>2, <3>3, <3>4, <3>5, InsertFacts
  <2>6. CASE LoopStep \/ Interrupted
    BY <2>1, <2>3, <2>6
       DEF LoopStep, DrainTasks, RunDelayed, EndTask, CheckShutdown, ComputeTimeout,
           SetTimeout, EpollWait, EndBatch, EndRead, EndWrite, Interrupted, ReadWake,
           watchVars
  <2>7. CASE \/ \E th \in Threads :
                   \/ \E t \in Tasks : Post(th, t)
                   \/ Push(th) \/ Wake(th)
             \/ \E th \in Stoppers : BeginShutdown(th) \/ StopStep(th)
             \/ \E x \in Watchers : DropWatcher(x)
             \/ \E fd \in Fds, x \in Directions \cup {"hup"} : ReadinessChanges(fd, x)
             \/ Tick \/ Done \/ UNCHANGED vars
    BY <2>1, <2>7
       DEF Post, Push, Wake, BeginShutdown, StopStep, WakeToStop, TakeHandle, Join,
           DropWatcher, ReadinessChanges, Tick, Done, vars, watchVars
  <2> HIDE DEF A
  <2> QED BY <2>2, <2>4, <2>5, <2>6, <2>7, Zenon DEF Next, CallStep
<1> QED BY <1>1, TypedInvariant, PTL DEF OwnerEndsWatch, Spec

\* A thread that has drawn a generation and not inserted its entry.
Drawn(th) == pc[th] \in {"mod", "insert"}

\* A generation belongs to one registration: one entry, or one thread about to insert
\* it, and never to a thread and to the event whose callback is running.
Generations ==
    /\ \A fd \in Fds : table.entry[fd] # NoEntry =>
          /\ table.entry[fd].generation < table.next
          /\ \A h \in Fds \ {fd} : table.entry[h] # NoEntry =>
                table.entry[h].generation # table.entry[fd].generation
    /\ \A th \in Threads : Drawn(th) =>
          /\ arg[th].generation < table.next
          /\ \A fd \in Fds : table.entry[fd] # NoEntry =>
                table.entry[fd].generation # arg[th].generation
          /\ \A o \in Threads \ {th} : Drawn(o) =>
                arg[o].generation # arg[th].generation
          /\ event # NoEvent => event.entry.generation # arg[th].generation
    /\ event # NoEvent => event.entry.generation < table.next
    /\ OneShotSpent

\* Nothing that only takes entries, drawn generations or the event away disturbs them.
LEMMA FewerGenerations ==
    ASSUME Generations, table'.next = table.next, event' \in {event, NoEvent},
           \A fd \in Fds : table'.entry[fd] \in {table.entry[fd], NoEntry},
           \A th \in Threads : Drawn(th)' => Drawn(th) /\ arg'[th] = arg[th]
    PROVE  Generations'
BY DEF Generations, OneShotSpent, Drawn

LEMMA AddWatchGenerations ==
    ASSUME Typed, Generations, NEW th \in Threads, AddWatch(th)
    PROVE  Generations'
<1>1. /\ table \in Table /\ table.next \in Nat
      /\ pc \in [Threads -> CallPCs \cup StopPCs] /\ arg \in [Threads -> Args]
  BY DEF Typed, TypeOK, Table
<1>2. FdOf[arg[th].ctl] \in Fds /\ ModeOf[arg[th].ctl] \in Modes
  BY IoAssumption DEF AddWatch, Typed, Control, Watching
<1>3. table'.entry = table.entry /\ table'.next = table.next + 1 /\ event' = event
  <2>1. event' = event
    BY DEF AddWatch, loopVars
  <2>2. \/ table' = Draw(table)
        \/ table' = Arm(Draw(table), FdOf[arg[th].ctl], ModeOf[arg[th].ctl])
    BY DEF AddWatch
  <2> QED BY <1>1, <1>2, <2>1, <2>2, DrawFacts, ArmFacts
<1>4. /\ \A o \in Threads \ {th} : pc'[o] = pc[o] /\ arg'[o] = arg[o]
      /\ pc'[th] \in {"mod", "insert"} => arg'[th].generation = table.next
  BY <1>1 DEF AddWatch, Goto
<1>5. /\ \A fd \in Fds : table.entry[fd] # NoEntry => table.entry[fd].generation \in Nat
      /\ \A o \in Threads : Drawn(o) => arg[o].generation \in Nat
  BY <1>1 DEF Table, Entry, Typed, Control, Drawn
<1>6. \A x : x \in Nat /\ x < table.next => x < table.next + 1 /\ x # table.next
  BY <1>1
<1>7. event # NoEvent => event.entry.generation \in Nat
  BY DEF Typed, TypeOK, EventLocals, Entry
<1>8. table.next < table.next + 1
  BY <1>1
<1>9. OneShotSpent'
  BY <1>3 DEF Generations, OneShotSpent
<1>10. \A fd \in Fds : table'.entry[fd] # NoEntry =>
          /\ table'.entry[fd].generation < table'.next
          /\ \A h \in Fds \ {fd} : table'.entry[h] # NoEntry =>
                table'.entry[h].generation # table'.entry[fd].generation
  BY <1>3, <1>5, <1>6 DEF Generations
<1>11. event' # NoEvent => event'.entry.generation < table'.next
  BY <1>3, <1>6, <1>7 DEF Generations
<1>12. ASSUME NEW o \in Threads, Drawn(o)'
       PROVE  /\ arg'[o].generation < table'.next
              /\ \A fd \in Fds : table'.entry[fd] # NoEntry =>
                    table'.entry[fd].generation # arg'[o].generation
              /\ \A p \in Threads \ {o} : Drawn(p)' =>
                    arg'[p].generation # arg'[o].generation
              /\ event' # NoEvent => event'.entry.generation # arg'[o].generation
  <2>1. CASE o = th
    BY <1>3, <1>4, <1>5, <1>6, <1>7, <1>8, <1>12, <2>1 DEF Generations, Drawn
  <2>2. CASE o # th
    BY <1>3, <1>4, <1>5, <1>6, <1>12, <2>2 DEF Generations, Drawn
  <2> QED BY <2>1, <2>2
<1> QED BY <1>9, <1>10, <1>11, <1>12 DEF Generations

LEMMA InsertWatchGenerations ==
    ASSUME Typed, Generations, NEW th \in Threads, InsertWatch(th)
    PROVE  Generations'
<1> DEFINE c == arg[th].ctl
           e == [watcher |-> WatcherOf[c], mode |-> ModeOf[c],
                 persistent |-> c \in Persistent, generation |-> arg[th].generation]
<1>1. /\ table \in Table /\ c \in Controllers /\ arg[th].generation \in Nat
      /\ pc \in [Threads -> CallPCs \cup StopPCs]
  BY DEF InsertWatch, Typed, TypeOK, Control, Watching
<1>2. FdOf[c] \in Fds /\ e \in Entry
  BY <1>1, IoAssumption DEF Entry
<1>3. table' = Insert(table, c, FdOf[c], e)
  BY DEF InsertWatch
<1>4. e.generation = arg[th].generation
  OBVIOUS
<1> HIDE DEF c, e
<1>5. /\ table'.next = table.next /\ table'.entry[FdOf[c]] = e
      /\ \A h \in Fds \ {FdOf[c]} : table'.entry[h] = table.entry[h]
  BY <1>1, <1>2, <1>3, InsertFacts
<1>6. /\ Drawn(th) /\ ~Drawn(th)' /\ event' = event
      /\ \A o \in Threads \ {th} : pc'[o] = pc[o] /\ arg'[o] = arg[o]
  BY <1>1 DEF InsertWatch, Goto, Drawn, loopVars, Typed, TypeOK
<1>7. OneShotSpent'
  BY <1>2, <1>4, <1>5, <1>6 DEF Generations, OneShotSpent
<1>8. \A fd \in Fds : table'.entry[fd] # NoEntry =>
          /\ table'.entry[fd].generation < table'.next
          /\ \A h \in Fds \ {fd} : table'.entry[h] # NoEntry =>
                table'.entry[h].generation # table'.entry[fd].generation
  BY <1>2, <1>4, <1>5, <1>6 DEF Generations
<1>9. ASSUME NEW o \in Threads, Drawn(o)'
      PROVE  /\ arg'[o].generation < table'.next
             /\ \A fd \in Fds : table'.entry[fd] # NoEntry =>
                    table'.entry[fd].generation # arg'[o].generation
             /\ \A p \in Threads \ {o} : Drawn(p)' =>
                    arg'[p].generation # arg'[o].generation
             /\ event' # NoEvent => event'.entry.generation # arg'[o].generation
  <2>1. o # th /\ Drawn(o) /\ arg'[o] = arg[o]
    BY <1>6, <1>9 DEF Drawn
  <2>2. \A p \in Threads \ {o} : Drawn(p)' => p # th /\ Drawn(p) /\ arg'[p] = arg[p]
    BY <1>6 DEF Drawn
  <2> QED BY <1>2, <1>4, <1>5, <1>6, <2>1, <2>2 DEF Generations
<1> QED BY <1>5, <1>6, <1>7, <1>8, <1>9 DEF Generations

LEMMA DispatchGenerations ==
    ASSUME Typed, Generations, NEW ev \in batch, Dispatch(ev)
    PROVE  Generations'
<1> DEFINE e == table.entry[ev.fd]
<1>1. table \in Table /\ ev.fd \in Fds
  BY DEF Dispatch, Typed, TypeOK
<1>2. UNCHANGED <<pc, arg>>
  BY DEF Dispatch, callVars
<1>3. CASE e = NoEntry
  <2>1. UNCHANGED <<table, event>>
    BY <1>3 DEF Dispatch
  <2> QED BY <1>2, <2>1, FewerGenerations DEF Drawn
<1>4. CASE e # NoEntry
  <2>1. table' = Extract(table, ev.fd)
    BY <1>4 DEF Dispatch
  <2>2. /\ table'.next = table.next
        /\ \A h \in Fds \ {ev.fd} : table'.entry[h] = table.entry[h]
        /\ table'.entry[ev.fd] = IF e.persistent THEN e ELSE NoEntry
    BY <1>1, <1>4, <2>1, ExtractFacts
  <2>3. \/ event' = event
        \/ event' = [fd |-> ev.fd, entry |-> e, write |-> CanWrite(e, ev.flags)]
    BY <1>4 DEF Dispatch
  <2>4. CASE event' = event
    BY <1>2, <2>2, <2>4, FewerGenerations DEF Drawn
  <2>5. CASE event' = [fd |-> ev.fd, entry |-> e, write |-> CanWrite(e, ev.flags)]
    <3>1. event'.entry = e
      BY <2>5
    <3> HIDE DEF e
    <3>2. OneShotSpent'
      BY <1>1, <1>4, <2>2, <3>1 DEF Generations, OneShotSpent, e
    <3> QED BY <1>1, <1>2, <1>4, <2>2, <3>1, <3>2 DEF Generations, Drawn, e
  <2> QED BY <2>3, <2>4, <2>5
<1> QED BY <1>3, <1>4

\* While the callback of a one-shot watch runs, its entry is gone already (488-494), and
\* nobody can insert it again: what the callback registers is another watch.
THEOREM OneShotSpentHolds == Spec => []OneShotSpent
<1>1. Init => Generations
  BY DEF Init, Generations, OneShotSpent, EmptyTable, Drawn
<1>2. Typed /\ Generations /\ [Next]_vars => Generations'
  <2> SUFFICES ASSUME Typed, Generations, [Next]_vars PROVE Generations'
    OBVIOUS
  <2>0. table \in Table /\ pc \in [Threads -> CallPCs \cup StopPCs]
    BY DEF Typed, TypeOK
  <2>1. CASE UNCHANGED <<table, pc, arg>> /\ event' \in {event, NoEvent}
    BY <2>1, FewerGenerations DEF Drawn
  <2>2. CASE \E th \in Threads, c \in Controllers : StopWatching(th, c) \/ Watch(th, c)
    <3>1. PICK th \in Threads, c \in Controllers : StopWatching(th, c) \/ Watch(th, c)
      BY <2>2
    <3>2. table' = Stop(table, c) /\ event' = event
      BY <3>1 DEF StopWatching, Watch, loopVars
    <3>3. /\ table'.next = table.next
          /\ \A fd \in Fds : table'.entry[fd] \in {table.entry[fd], NoEntry}
      BY <2>0, <3>2, StopFacts
    <3>4. \A o \in Threads : Drawn(o)' => Drawn(o) /\ arg'[o] = arg[o]
      BY <2>0, <3>1 DEF StopWatching, Watch, MayUse, MayCall, Goto, Drawn, callVars,
                        Typed, TypeOK
    <3> QED BY <3>2, <3>3, <3>4, FewerGenerations
  <2>3. CASE \E th \in Threads : ModWatch(th)
    <3>1. PICK th \in Threads : ModWatch(th)
      BY <2>3
    <3>2. FdOf[arg[th].ctl] \in Fds /\ ModeOf[arg[th].ctl] \in Modes
      BY <3>1, IoAssumption DEF ModWatch, Typed, Control, Watching
    <3>3. table'.entry = table.entry /\ table'.next = table.next /\ event' = event
      BY <2>0, <3>1, <3>2, ArmFacts DEF ModWatch, loopVars
    <3>4. \A o \in Threads : Drawn(o)' => Drawn(o) /\ arg'[o] = arg[o]
      BY <2>0, <3>1 DEF ModWatch, Goto, Drawn, Typed, TypeOK
    <3> QED BY <3>3, <3>4, FewerGenerations
  <2>4. CASE \E th \in Threads :
                \/ \E t \in Tasks : Post(th, t)
                \/ Push(th) \/ Wake(th)
    <3>1. UNCHANGED <<table, event>>
      BY <2>4 DEF Post, Push, Wake, watchVars, loopVars
    <3>2. \A o \in Threads : Drawn(o)' => Drawn(o) /\ arg'[o] = arg[o]
      BY <2>0, <2>4 DEF Post, Push, Wake, MayCall, Goto, Drawn, Typed, TypeOK
    <3> QED BY <3>1, <3>2, FewerGenerations
  <2>5. CASE \E th \in Stoppers : BeginShutdown(th) \/ StopStep(th)
    <3>1. UNCHANGED <<table, event, arg>>
      BY <2>5 DEF BeginShutdown, StopStep, WakeToStop, TakeHandle, Join, watchVars,
                  loopVars
    <3>2. \A o \in Threads : Drawn(o)' => Drawn(o)
      BY <2>0, <2>5, IoAssumption
         DEF BeginShutdown, StopStep, WakeToStop, TakeHandle, Join, Goto, Drawn, Threads
    <3> QED BY <3>1, <3>2, FewerGenerations
  <2>6. CASE LoopStep \/ Interrupted
    BY <2>1, <2>6, DispatchGenerations
       DEF LoopStep, DrainTasks, RunDelayed, EndTask, CheckShutdown, ComputeTimeout,
           SetTimeout, EpollWait, EndBatch, EndRead, EndWrite, Interrupted, ReadWake,
           watchVars, callVars
  <2>7. CASE \/ \E x \in Watchers : DropWatcher(x)
             \/ \E fd \in Fds, x \in Directions \cup {"hup"} : ReadinessChanges(fd, x)
             \/ Tick \/ Done \/ UNCHANGED vars
    BY <2>1, <2>7 DEF DropWatcher, ReadinessChanges, Tick, Done, vars, watchVars,
                      loopVars, callVars
  <2> HIDE DEF Generations
  <2> QED BY <2>2, <2>3, <2>4, <2>5, <2>6, <2>7, AddWatchGenerations,
             InsertWatchGenerations, Zenon DEF Next, CallStep
<1>3. Generations => OneShotSpent
  BY DEF Generations
<1> QED BY <1>1, <1>2, <1>3, TypedInvariant, PTL DEF Spec
-----------------------------------------------------------------------------
(* What epoll watches is what the table says *)

\* No other controller is used with the descriptor of c.
Alone(c) == \A d \in Controllers \ {c} : FdOf[d] # FdOf[c]

\* Controllers that share a descriptor are used on the IO thread, as SocketPosix uses
\* its two (socket_posix.rs:36).  Elsewhere the three steps of a registration would
\* meet those of another registration, or the removal of a one-shot watch.
SharedOnIo == \A c \in Controllers : Alone(c) \/ Users[c] \subseteq {IO}

\* A registration has its controller to itself, keeps the IO thread in the callback it
\* is made from, and finds no entry in the table when no other controller could have
\* made one; once epoll knows the mode, nobody changes it before the entry is inserted.
Registering(th) ==
    /\ th \in Users[arg[th].ctl]
    /\ th = IO => loop \in Callbacks
    /\ \A o \in Threads \ {th} : pc[o] \in Watching => arg[o].ctl # arg[th].ctl
    /\ Alone(arg[th].ctl) => table.entry[FdOf[arg[th].ctl]] = NoEntry
    /\ pc[th] = "insert" =>
          table.interest[FdOf[arg[th].ctl]] = Events(ModeOf[arg[th].ctl])

\* A controller that has its descriptor to itself refers to the entry there.
Referring(c) ==
    /\ table.ctl[c] # Unbound => table.ctl[c].fd = FdOf[c]
    /\ Alone(c) /\ table.entry[FdOf[c]] # NoEntry =>
          table.ctl[c] = [fd |-> FdOf[c], generation |-> table.entry[FdOf[c]].generation]

Settled(fd) == table.interest[fd] = IF table.entry[fd] = NoEntry THEN {}
                                    ELSE Events(table.entry[fd].mode)

Inserting(fd) == \E th \in Threads : pc[th] = "insert" /\ FdOf[arg[th].ctl] = fd

Armed ==
    /\ \A th \in Threads : pc[th] \in Watching => Registering(th)
    /\ \A c \in Controllers : Referring(c)
    /\ \A fd \in Fds : Inserting(fd) \/ Settled(fd)

LEMMA UnregisterInterest ==
    ASSUME NEW w \in Table, NEW f \in Fds, NEW g \in Nat
    PROVE  \A h \in Fds :
              \/ /\ Unregister(w, f, g).entry[h] = w.entry[h]
                 /\ Unregister(w, f, g).interest[h] = w.interest[h]
                 /\ h = f => w.entry[f] = NoEntry \/ w.entry[f].generation # g
              \/ /\ Unregister(w, f, g).entry[h] = NoEntry
                 /\ Unregister(w, f, g).interest[h] = {}
                 /\ h = f
BY DEF Unregister, Removed, Table, Directions

\* Giving up a controller changes nothing but its own descriptor, there removes the
\* entry and what epoll was told together, and always removes an entry it refers to.
LEMMA StopInterest ==
    ASSUME NEW w \in Table, NEW c \in Controllers
    PROVE  /\ Stop(w, c).ctl = [w.ctl EXCEPT ![c] = Unbound]
           /\ \A h \in Fds :
                 \/ /\ Stop(w, c).entry[h] = w.entry[h]
                    /\ Stop(w, c).interest[h] = w.interest[h]
                    /\ \/ w.entry[h] = NoEntry
                       \/ w.ctl[c] # [fd |-> h, generation |-> w.entry[h].generation]
                 \/ /\ Stop(w, c).entry[h] = NoEntry
                    /\ Stop(w, c).interest[h] = {}
                    /\ w.ctl[c] # Unbound /\ w.ctl[c].fd = h
<1>1. CASE ~IsWatching(w, c)
  <2>1. Stop(w, c) = w /\ w.ctl[c] = Unbound
    BY <1>1 DEF Stop, IsWatching
  <2>2. w.ctl = [w.ctl EXCEPT ![c] = Unbound]
    BY <2>1 DEF Table
  <2>3. \A h \in Fds, g \in Nat : Unbound # [fd |-> h, generation |-> g]
    BY IoAssumption
  <2>4. \A h \in Fds : w.entry[h] = NoEntry \/ w.entry[h].generation \in Nat
    BY DEF Table, Entry
  <2> QED BY <2>1, <2>2, <2>3, <2>4
<1>2. CASE IsWatching(w, c)
  <2> DEFINE u == [w EXCEPT !.ctl[c] = Unbound]
  <2>1. w.ctl[c] \in [fd : Fds, generation : Nat] /\ w.ctl[c] # Unbound
    BY <1>2 DEF Table, IsWatching
  <2>2. /\ u \in Table /\ u.entry = w.entry /\ u.interest = w.interest
        /\ u.ctl = [w.ctl EXCEPT ![c] = Unbound]
    BY DEF Table
  <2>3. Stop(w, c) = Unregister(u, w.ctl[c].fd, w.ctl[c].generation)
    BY <1>2 DEF Stop
  <2> HIDE DEF u
  <2>4. PICK f \in Fds, g \in Nat : w.ctl[c] = [fd |-> f, generation |-> g]
    BY <2>1
  <2>5. Stop(w, c) = Unregister(u, f, g)
    BY <2>3, <2>4
  <2> DEFINE v == Unregister(u, f, g)
  <2>6. v.ctl = u.ctl
    BY <2>2, UnregisterFacts
  <2>7. \A h \in Fds : \/ /\ v.entry[h] = u.entry[h] /\ v.interest[h] = u.interest[h]
                          /\ h = f => u.entry[f] = NoEntry \/ u.entry[f].generation # g
                       \/ v.entry[h] = NoEntry /\ v.interest[h] = {} /\ h = f
    BY <2>2, UnregisterInterest
  <2>8. w.ctl[c].fd = f /\ w.ctl[c].generation = g
    BY <2>4
  <2> HIDE DEF v
  <2>9. \A e : \A h \in Fds : w.ctl[c] = [fd |-> h, generation |-> e] => h = f /\ e = g
    BY <2>8
  <2> QED BY <2>1, <2>2, <2>5, <2>6, <2>7, <2>8, <2>9 DEF v
<1> QED BY <1>1, <1>2

\* What a step must keep of a call in progress: nothing that touches no table.
LEMMA SameTableArmed ==
    ASSUME Armed, table' = table,
           \A th \in Threads : pc'[th] \in Watching =>
               /\ pc'[th] = pc[th] /\ arg'[th] = arg[th]
               /\ th = IO => loop' \in Callbacks,
           \A th \in Threads : pc[th] = "insert" => pc'[th] = "insert" /\ arg'[th] = arg[th]
    PROVE  Armed'
<1>1. \A th \in Threads : pc'[th] \in Watching => Registering(th)'
  BY DEF Armed, Registering
<1>2. \A c \in Controllers : Referring(c)'
  BY DEF Armed, Referring
<1>3. \A fd \in Fds : Inserting(fd)' \/ Settled(fd)'
  BY DEF Armed, Inserting, Settled
<1> QED BY <1>1, <1>2, <1>3 DEF Armed

\* Where two threads register at once, they register different descriptors.
LEMMA SeparateDescriptors ==
    ASSUME SharedOnIo, Typed, Armed, NEW th \in Threads, pc[th] \in Watching,
           NEW o \in Threads \ {th}, pc[o] \in Watching
    PROVE  FdOf[arg[o].ctl] # FdOf[arg[th].ctl]
<1>1. arg[th].ctl \in Controllers /\ arg[o].ctl \in Controllers
  BY DEF Typed, Control
<1>2. arg[o].ctl # arg[th].ctl /\ o \in Users[arg[o].ctl] /\ th \in Users[arg[th].ctl]
  BY DEF Armed, Registering
<1> QED BY <1>1, <1>2 DEF SharedOnIo, Alone

\* Nor does a controller that may be used have the descriptor of a registration.
LEMMA UseApart ==
    ASSUME SharedOnIo, Typed, Armed, NEW th \in Threads, NEW c \in Controllers,
           MayUse(th, c), NEW o \in Threads, pc[o] \in Watching
    PROVE  arg[o].ctl # c /\ FdOf[arg[o].ctl] # FdOf[c]
<1>1. arg[o].ctl \in Controllers /\ o \in Users[arg[o].ctl]
  BY DEF Typed, Control, Armed, Registering
<1>2. arg[o].ctl # c /\ th \in Users[c] /\ pc[th] = "idle"
  BY DEF MayUse, MayCall
<1>3. pc[o] # "idle"
  BY DEF Watching
<1> QED BY <1>1, <1>2, <1>3 DEF SharedOnIo, Alone

\* StopWatching, and the first step of Watch.
LEMMA StopArmed ==
    ASSUME SharedOnIo, Typed, Armed, NEW th \in Threads, NEW c \in Controllers,
           MayUse(th, c), table' = Stop(table, c), loop' = loop,
           \A o \in Threads \ {th} : pc'[o] = pc[o] /\ arg'[o] = arg[o],
           \/ pc'[th] = "idle"
           \/ pc'[th] = "add" /\ arg'[th].ctl = c
    PROVE  Armed'
<1>1. /\ table \in Table /\ FdOf \in [Controllers -> Fds] /\ pc[th] = "idle"
      /\ th \in Users[c] /\ (th = IO => loop \in Callbacks)
  BY IoAssumption DEF Typed, TypeOK, MayUse, MayCall
<1>2. /\ table'.ctl = [table.ctl EXCEPT ![c] = Unbound]
      /\ \A h \in Fds :
            \/ /\ table'.entry[h] = table.entry[h] /\ table'.interest[h] = table.interest[h]
               /\ \/ table.entry[h] = NoEntry
                  \/ table.ctl[c] # [fd |-> h, generation |-> table.entry[h].generation]
            \/ /\ table'.entry[h] = NoEntry /\ table'.interest[h] = {}
               /\ table.ctl[c] # Unbound /\ table.ctl[c].fd = h
  BY <1>1, StopInterest
<1>3. \A h \in Fds \ {FdOf[c]} :
         table'.entry[h] = table.entry[h] /\ table'.interest[h] = table.interest[h]
  BY <1>2 DEF Armed, Referring
<1>4. Alone(c) => table'.entry[FdOf[c]] = NoEntry
  BY <1>1, <1>2 DEF Armed, Referring
<1>5. \A o \in Threads \ {th} : pc[o] \in Watching =>
         /\ arg[o].ctl \in Controllers /\ arg[o].ctl # c
         /\ FdOf[arg[o].ctl] \in Fds \ {FdOf[c]}
  BY <1>1, UseApart DEF Typed, Control
<1>6. ASSUME NEW o \in Threads, pc'[o] \in Watching
      PROVE  Registering(o)'
  <2>1. CASE o = th
    <3>1. pc'[th] = "add" /\ arg'[th].ctl = c
      BY <1>6, <2>1 DEF Watching
    <3> QED BY <1>1, <1>4, <1>5, <2>1, <3>1 DEF Registering
  <2>2. CASE o # th
    <3>1. pc[o] \in Watching /\ arg'[o] = arg[o] /\ pc'[o] = pc[o] /\ Registering(o)
      BY <1>6, <2>2 DEF Armed
    <3>2. /\ table'.entry[FdOf[arg[o].ctl]] = table.entry[FdOf[arg[o].ctl]]
          /\ table'.interest[FdOf[arg[o].ctl]] = table.interest[FdOf[arg[o].ctl]]
      BY <1>3, <1>5, <2>2, <3>1
    <3>3. \A p \in Threads \ {o} : pc'[p] \in Watching => arg'[p].ctl # arg'[o].ctl
      BY <1>5, <2>2, <3>1 DEF Registering, Watching
    <3> QED BY <2>2, <3>1, <3>2, <3>3 DEF Registering
  <2> QED BY <2>1, <2>2
<1>7. ASSUME NEW d \in Controllers
      PROVE  Referring(d)'
  <2>1. CASE d = c
    BY <1>1, <1>2, <1>4, <2>1 DEF Referring, Typed, TypeOK, Table
  <2>2. CASE d # c
    <3>1. table'.ctl[d] = table.ctl[d] /\ Referring(d)
      BY <1>1, <1>2, <2>2 DEF Armed, Table
    <3>2. Alone(d) => table'.entry[FdOf[d]] = table.entry[FdOf[d]]
      BY <1>1, <1>3, <2>2 DEF Alone
    <3> QED BY <3>1, <3>2 DEF Referring
  <2> QED BY <2>1, <2>2
<1>8. ASSUME NEW h \in Fds
      PROVE  Inserting(h)' \/ Settled(h)'
  <2>1. CASE h = FdOf[c]
    <3>1. ~Inserting(h)
      BY <1>1, <1>5, <2>1 DEF Inserting, Watching
    <3>2. Settled(h)
      BY <3>1 DEF Armed
    <3> QED BY <1>2, <3>2 DEF Settled
  <2>2. CASE h # FdOf[c]
    <3>1. CASE Inserting(h)
      BY <1>1, <3>1 DEF Inserting
    <3>2. CASE Settled(h)
      BY <1>3, <2>2, <3>2 DEF Settled
    <3> QED BY <3>1, <3>2 DEF Armed
  <2> QED BY <2>1, <2>2
<1> QED BY <1>6, <1>7, <1>8 DEF Armed

\* EPOLL_CTL_ADD and EPOLL_CTL_MOD: epoll knows the mode before the table does.
LEMMA ArmingArmed ==
    ASSUME SharedOnIo, Typed, Armed, NEW th \in Threads, AddWatch(th) \/ ModWatch(th)
    PROVE  Armed'
<1> DEFINE c == arg[th].ctl
<1>1. /\ table \in Table /\ pc[th] \in Watching /\ c \in Controllers
      /\ pc \in [Threads -> CallPCs \cup StopPCs] /\ arg \in [Threads -> Args]
      /\ FdOf \in [Controllers -> Fds] /\ ModeOf[c] \in Modes
  BY IoAssumption DEF Typed, TypeOK, Control, AddWatch, ModWatch, Watching
<1>2. /\ table'.entry = table.entry /\ table'.ctl = table.ctl
      /\ \A h \in Fds \ {FdOf[c]} : table'.interest[h] = table.interest[h]
      /\ \/ table'.interest[FdOf[c]] = Events(ModeOf[c]) /\ pc'[th] = "insert"
         \/ table'.interest[FdOf[c]] = table.interest[FdOf[c]] /\ pc'[th] \in {"idle", "mod"}
      /\ pc'[th] \in Watching => arg'[th].ctl = c
      /\ \A o \in Threads \ {th} : pc'[o] = pc[o] /\ arg'[o] = arg[o]
      /\ loop' = loop
  <2>1. CASE AddWatch(th)
    <3>1. /\ \A o \in Threads \ {th} : pc'[o] = pc[o] /\ arg'[o] = arg[o]
          /\ loop' = loop
      BY <1>1, <2>1 DEF AddWatch, Goto, loopVars
    <3>2. \/ table' = Draw(table) /\ pc'[th] = "idle"
          \/ table' = Draw(table) /\ pc'[th] = "mod" /\ arg'[th].ctl = c
          \/ /\ table' = Arm(Draw(table), FdOf[c], ModeOf[c])
             /\ pc'[th] = "insert" /\ arg'[th].ctl = c
      BY <1>1, <2>1 DEF AddWatch, Goto
    <3>3. /\ Draw(table) \in Table /\ Draw(table).entry = table.entry
          /\ Draw(table).ctl = table.ctl /\ Draw(table).interest = table.interest
      BY <1>1 DEF Draw, Table
    <3>4. \A w \in Table : LET v == Arm(w, FdOf[c], ModeOf[c]) IN
             /\ v.entry = w.entry /\ v.ctl = w.ctl
             /\ \A h \in Fds \ {FdOf[c]} : v.interest[h] = w.interest[h]
             /\ v.interest[FdOf[c]] = Events(ModeOf[c])
      BY <1>1 DEF Arm, Table
    <3> HIDE DEF c
    <3> QED BY <3>1, <3>2, <3>3, <3>4 DEF Watching
  <2>2. CASE ModWatch(th)
    BY <1>1, <2>2 DEF ModWatch, Arm, Goto, Table, loopVars, Watching
  <2> QED BY <2>1, <2>2
<1>3. pc[th] # "insert"
  BY DEF AddWatch, ModWatch
<1>4. \A o \in Threads \ {th} : pc[o] \in Watching =>
         /\ arg[o].ctl \in Controllers /\ arg[o].ctl # c
         /\ FdOf[arg[o].ctl] \in Fds \ {FdOf[c]}
  BY <1>1, SeparateDescriptors DEF Typed, Control, Armed, Registering
<1>5. Registering(th)
  BY <1>1 DEF Armed
<1> HIDE DEF c
<1>6. ASSUME NEW o \in Threads, pc'[o] \in Watching
      PROVE  Registering(o)'
  <2>1. CASE o = th
    BY <1>2, <1>4, <1>5, <1>6, <2>1 DEF Registering, c
  <2>2. CASE o # th
    <3>1. Registering(o) /\ pc[o] \in Watching
      BY <1>2, <1>6, <2>2 DEF Armed
    <3>2. table'.interest[FdOf[arg[o].ctl]] = table.interest[FdOf[arg[o].ctl]]
      BY <1>2, <1>4, <2>2, <3>1
    <3>3. \A p \in Threads \ {o} : pc'[p] \in Watching => arg'[p].ctl # arg'[o].ctl
      BY <1>2, <1>4, <2>2, <3>1 DEF Registering
    <3> QED BY <1>2, <2>2, <3>1, <3>2, <3>3 DEF Registering
  <2> QED BY <2>1, <2>2
<1>7. \A d \in Controllers : Referring(d)'
  BY <1>2 DEF Armed, Referring
<1>8. ASSUME NEW h \in Fds
      PROVE  Inserting(h)' \/ Settled(h)'
  <2>1. CASE Inserting(h)
    BY <1>2, <1>3, <2>1 DEF Inserting
  <2>2. CASE Settled(h) /\ (h # FdOf[c] \/ table'.interest[h] = table.interest[h])
    BY <1>2, <2>2 DEF Settled
  <2>3. CASE h = FdOf[c] /\ pc'[th] = "insert"
    BY <1>2, <2>3 DEF Inserting, Watching
  <2> QED BY <1>2, <2>1, <2>2, <2>3 DEF Armed
<1> QED BY <1>6, <1>7, <1>8 DEF Armed

LEMMA InsertArmed ==
    ASSUME SharedOnIo, Typed, Armed, NEW th \in Threads, InsertWatch(th)
    PROVE  Armed'
<1> DEFINE c == arg[th].ctl
           e == [watcher |-> WatcherOf[c], mode |-> ModeOf[c],
                 persistent |-> c \in Persistent, generation |-> arg[th].generation]
<1>1. /\ table \in Table /\ pc[th] = "insert" /\ pc[th] \in Watching /\ c \in Controllers
      /\ pc \in [Threads -> CallPCs \cup StopPCs] /\ arg \in [Threads -> Args]
      /\ FdOf \in [Controllers -> Fds] /\ arg[th].generation \in Nat
  BY IoAssumption DEF Typed, TypeOK, Control, InsertWatch, Watching
<1>2. e \in Entry /\ e.mode = ModeOf[c] /\ e # NoEntry
  <2>1. /\ WatcherOf[c] \in Watchers /\ ModeOf[c] \in Modes
        /\ (c \in Persistent) \in BOOLEAN
    BY <1>1, IoAssumption
  <2>2. e \in Entry
    BY <1>1, <2>1 DEF Entry
  <2>3. e.mode = ModeOf[c]
    OBVIOUS
  <2> HIDE DEF c, e
  <2> QED BY <2>2, <2>3, IoAssumption
<1>3. table' = Insert(table, c, FdOf[c], e) /\ loop' = loop /\ pc'[th] = "idle"
  BY <1>1 DEF InsertWatch, Goto, loopVars
<1>4. \A o \in Threads \ {th} : pc'[o] = pc[o] /\ arg'[o] = arg[o]
  BY <1>1 DEF InsertWatch, Goto
<1>5. \A o \in Threads \ {th} : pc[o] \in Watching =>
         /\ arg[o].ctl \in Controllers /\ arg[o].ctl # c
         /\ FdOf[arg[o].ctl] \in Fds \ {FdOf[c]}
  BY <1>1, SeparateDescriptors DEF Typed, Control, Armed, Registering
<1>6. table.interest[FdOf[c]] = Events(ModeOf[c])
  BY <1>1 DEF Armed, Registering
<1>7. pc'[th] \notin Watching
  BY <1>3 DEF Watching
<1> HIDE DEF c, e
<1>8. /\ table'.interest = table.interest
      /\ table'.entry[FdOf[c]] = e
      /\ \A h \in Fds \ {FdOf[c]} : table'.entry[h] = table.entry[h]
      /\ table'.ctl[c] = [fd |-> FdOf[c], generation |-> e.generation]
      /\ \A d \in Controllers \ {c} : table'.ctl[d] = table.ctl[d]
  BY <1>1, <1>2, <1>3 DEF Insert, Table
<1>9. ASSUME NEW o \in Threads, pc'[o] \in Watching
      PROVE  Registering(o)'
  <2>1. o # th /\ pc[o] \in Watching /\ Registering(o)
    BY <1>4, <1>7, <1>9 DEF Armed
  <2>2. \A p \in Threads \ {o} : pc'[p] \in Watching => arg'[p].ctl # arg'[o].ctl
    BY <1>4, <1>7, <2>1 DEF Registering
  <2> QED BY <1>3, <1>4, <1>5, <1>8, <2>1, <2>2 DEF Registering
<1>10. ASSUME NEW d \in Controllers
       PROVE  Referring(d)'
  <2>1. CASE d = c
    BY <1>8, <2>1 DEF Referring
  <2>2. CASE d # c
    <3>1. Alone(d) => FdOf[d] \in Fds \ {FdOf[c]}
      BY <1>1, <2>2 DEF Alone
    <3> QED BY <1>8, <2>2, <3>1 DEF Armed, Referring
  <2> QED BY <2>1, <2>2
<1>11. ASSUME NEW h \in Fds
       PROVE  Inserting(h)' \/ Settled(h)'
  <2>1. CASE h = FdOf[c]
    BY <1>2, <1>6, <1>8, <2>1 DEF Settled
  <2>2. CASE h # FdOf[c]
    <3>1. CASE Inserting(h)
      BY <1>4, <2>2, <3>1 DEF Inserting, c
    <3>2. CASE Settled(h)
      BY <1>8, <2>2, <3>2 DEF Settled
    <3> QED BY <3>1, <3>2 DEF Armed
  <2> QED BY <2>1, <2>2
<1> QED BY <1>9, <1>10, <1>11 DEF Armed

\* The loop is in no callback, so that the descriptor of the event is registered by no
\* thread, or by one that has found no entry.
LEMMA DispatchArmed ==
    ASSUME SharedOnIo, Typed, Armed, NEW ev \in batch, Dispatch(ev)
    PROVE  Armed'
<1> DEFINE f == ev.fd
<1>1. table \in Table /\ f \in Fds /\ FdOf \in [Controllers -> Fds]
  BY IoAssumption DEF Dispatch, Typed, TypeOK
<1>2. UNCHANGED <<pc, arg>> /\ loop \notin Callbacks
  BY DEF Dispatch, callVars, Callbacks
<1>3. \A th \in Threads : pc[th] \in Watching => th # IO /\ Registering(th)
  BY <1>2 DEF Armed, Registering
<1>4. \A th \in Threads : pc[th] \in Watching => Alone(arg[th].ctl)
  BY <1>3 DEF SharedOnIo, Registering, Typed, Control
<1>5. CASE table' = table
  <2>1. \A th \in Threads : pc'[th] \in Watching =>
           /\ pc'[th] = pc[th] /\ arg'[th] = arg[th]
           /\ th = IO => loop' \in Callbacks
    BY <1>2, <1>3
  <2>2. \A th \in Threads : pc[th] = "insert" => pc'[th] = "insert" /\ arg'[th] = arg[th]
    BY <1>2
  <2> QED BY <1>5, <2>1, <2>2, SameTableArmed
<1>6. CASE table' # table
  <2>1. table.entry[f] # NoEntry /\ table' = Removed(table, f)
    BY <1>6 DEF Dispatch, Extract
  <2>2. /\ table'.entry[f] = NoEntry /\ table'.interest[f] = {} /\ table'.ctl = table.ctl
        /\ \A h \in Fds \ {f} : /\ table'.entry[h] = table.entry[h]
                                /\ table'.interest[h] = table.interest[h]
    BY <1>1, <2>1 DEF Removed, Table
  <2>3. \A th \in Threads : pc[th] \in Watching => FdOf[arg[th].ctl] \in Fds \ {f}
    BY <1>1, <1>3, <1>4, <2>1 DEF Registering, Typed, Control
  <2> HIDE DEF f
  <2>4. \A th \in Threads : pc'[th] \in Watching => Registering(th)'
    BY <1>2, <1>3, <2>2, <2>3 DEF Registering
  <2>5. \A d \in Controllers : Referring(d)'
    BY <1>1, <2>2 DEF Armed, Referring
  <2>6. \A h \in Fds : Inserting(h)' \/ Settled(h)'
    BY <1>2, <2>2 DEF Armed, Inserting, Settled
  <2> QED BY <2>4, <2>5, <2>6 DEF Armed
<1> QED BY <1>5, <1>6

\* Nothing else touches the table, or takes the IO thread out of a callback while it
\* registers.
LEMMA OtherStepsArmed ==
    ASSUME Typed, Armed, UNCHANGED table,
           \/ \E th \in Threads, t \in Tasks : Post(th, t)
           \/ \E th \in Threads : Push(th) \/ Wake(th)
           \/ \E th \in Stoppers : BeginShutdown(th) \/ StopStep(th)
           \/ DrainTasks \/ RunDelayed \/ EndTask \/ CheckShutdown \/ ComputeTimeout
           \/ EpollWait \/ EndBatch \/ EndRead \/ EndWrite \/ Interrupted
           \/ \E ev \in batch : ReadWake(ev)
           \/ UNCHANGED <<pc, arg, loop>>
    PROVE  Armed'
<1>1. pc \in [Threads -> CallPCs \cup StopPCs] /\ arg \in [Threads -> Args]
  BY DEF Typed, TypeOK
<1>2. \A th \in Threads : pc[th] \in Watching => (th = IO => loop \in Callbacks)
  BY DEF Armed, Registering
<1>3. \A th \in Threads : pc'[th] \in Watching => pc'[th] = pc[th] /\ arg'[th] = arg[th]
  BY <1>1, IoAssumption
     DEF Post, Push, Wake, BeginShutdown, StopStep, WakeToStop, TakeHandle, Join,
         DrainTasks, RunDelayed, EndTask, CheckShutdown, ComputeTimeout, SetTimeout,
         EpollWait, EndBatch, EndRead, EndWrite, Interrupted, ReadWake, MayCall, Goto,
         Watching, callVars, Threads
<1>4. \A th \in Threads : pc[th] = "insert" => pc'[th] = "insert" /\ arg'[th] = arg[th]
  BY <1>1, IoAssumption
     DEF Post, Push, Wake, BeginShutdown, StopStep, WakeToStop, TakeHandle, Join,
         DrainTasks, RunDelayed, EndTask, CheckShutdown, ComputeTimeout, SetTimeout,
         EpollWait, EndBatch, EndRead, EndWrite, Interrupted, ReadWake, MayCall, Goto,
         callVars, Threads
<1>5. loop \in Callbacks /\ pc[IO] # "idle" => loop' \in Callbacks
  BY DEF Post, Push, Wake, BeginShutdown, StopStep, WakeToStop, TakeHandle, Join,
         DrainTasks, RunDelayed, EndTask, CheckShutdown, ComputeTimeout, SetTimeout,
         EpollWait, EndBatch, EndRead, EndWrite, Interrupted, ReadWake, Callbacks,
         loopVars
<1> QED BY <1>2, <1>3, <1>4, <1>5, SameTableArmed DEF Watching

\* What epoll was asked for is what the entry in the table asks for (244-268, 292-304),
\* although the two are written by separate steps, as long as controllers that share a
\* descriptor are used on the IO thread.
THEOREM WatchArmedHolds ==
    ASSUME SharedOnIo
    PROVE  Spec => []WatchArmed
<1>1. Init => Armed
  <2> SUFFICES ASSUME Init PROVE Armed
    OBVIOUS
  <2>1. \A th \in Threads : pc[th] \notin Watching
    BY DEF Init, Watching
  <2>2. FdOf \in [Controllers -> Fds]
    BY IoAssumption
  <2> QED BY <2>1, <2>2 DEF Init, Armed, EmptyTable, Referring, Settled
<1>2. Typed /\ Armed /\ [Next]_vars => Armed'
  <2> SUFFICES ASSUME Typed, Armed, [Next]_vars PROVE Armed'
    OBVIOUS
  <2>0. pc \in [Threads -> CallPCs \cup StopPCs] /\ arg \in [Threads -> Args]
    BY DEF Typed, TypeOK
  <2>1. CASE \E th \in Threads, c \in Controllers : StopWatching(th, c) \/ Watch(th, c)
    <3>1. PICK th \in Threads, c \in Controllers : StopWatching(th, c) \/ Watch(th, c)
      BY <2>1
    <3>2. /\ MayUse(th, c) /\ table' = Stop(table, c) /\ loop' = loop
          /\ \A o \in Threads \ {th} : pc'[o] = pc[o] /\ arg'[o] = arg[o]
          /\ \/ pc'[th] = "idle"
             \/ pc'[th] = "add" /\ arg'[th].ctl = c
      BY <2>0, <3>1 DEF StopWatching, Watch, MayUse, MayCall, Goto, callVars, loopVars
    <3> QED BY <3>2, StopArmed
  <2>2. CASE \E th \in Threads, t \in Tasks : Post(th, t)
    BY <2>2, OtherStepsArmed DEF Post, watchVars
  <2>3. CASE \E th \in Threads : Push(th) \/ Wake(th)
    BY <2>3, OtherStepsArmed DEF Push, Wake, watchVars
  <2>4. CASE \E th \in Threads : AddWatch(th) \/ ModWatch(th) \/ InsertWatch(th)
    BY <2>4, ArmingArmed, InsertArmed
  <2>5. CASE \E th \in Stoppers : BeginShutdown(th) \/ StopStep(th)
    BY <2>5, OtherStepsArmed
       DEF BeginShutdown, StopStep, WakeToStop, TakeHandle, Join, watchVars
  <2>6. CASE LoopStep \/ Interrupted
    <3>1. CASE \E ev \in batch : Dispatch(ev)
      BY <3>1, DispatchArmed
    <3>2. CASE \/ DrainTasks \/ RunDelayed \/ EndTask \/ CheckShutdown \/ ComputeTimeout
               \/ EpollWait \/ EndBatch \/ EndRead \/ EndWrite \/ Interrupted
               \/ \E ev \in batch : ReadWake(ev)
      <4>1. UNCHANGED table
        BY <3>2 DEF DrainTasks, RunDelayed, EndTask, CheckShutdown, ComputeTimeout,
                    SetTimeout, EpollWait, EndBatch, EndRead, EndWrite, Interrupted,
                    ReadWake, watchVars
      <4> QED BY <3>2, <4>1, OtherStepsArmed
    <3> QED BY <2>6, <3>1, <3>2 DEF LoopStep
  <2>7. CASE \/ \E x \in Watchers : DropWatcher(x)
             \/ \E fd \in Fds, x \in Directions \cup {"hup"} : ReadinessChanges(fd, x)
             \/ Tick \/ Done \/ UNCHANGED vars
    <3>1. UNCHANGED <<table, pc, arg, loop>>
      BY <2>7 DEF DropWatcher, ReadinessChanges, Tick, Done, vars, watchVars, loopVars,
                  callVars
    <3> QED BY <3>1, OtherStepsArmed
  <2> HIDE DEF Armed
  <2> QED BY <2>1, <2>2, <2>3, <2>4, <2>5, <2>6, <2>7, Zenon DEF Next, CallStep
<1>3. Armed => WatchArmed
  BY DEF Armed, WatchArmed, Inserting, Settled
<1> QED BY <1>1, <1>2, <1>3, TypedInvariant, PTL DEF Spec
=============================================================================

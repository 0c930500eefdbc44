-------------------------- MODULE ThreadPool_proofs --------------------------
(* Theorems about ThreadPool, for every value of its constants. *)
EXTENDS ThreadPool, FiniteSetTheorems, TLAPS

-----------------------------------------------------------------------------
(* Types, and the one place a task is at *)

Carriers == Workers \cup Posters

\* A task that was accepted is carried by one thread, waits in one place, has
\* finished, or was dropped, and a thread carries one just where it should.
Lifecycle ==
    /\ \A x, y \in Carriers : task[x] # NoTask /\ task[x] = task[y] => x = y
    /\ \A x \in Carriers : task[x] # NoTask =>
          task[x] \in Accepted /\ task[x] \notin ready \cup waiting
    /\ ready \cup waiting \subseteq Accepted \ finished
    /\ ready \cap waiting = {}
    /\ finished \subseteq Accepted
    /\ \A p \in Posters : /\ pc[p] = "push" => task[p] \in Tasks \ finished
                          /\ pc[p] = "idle" => task[p] = NoTask
    /\ \A w \in Workers :
          /\ pc[w] \in {"get_work", "exited"} => task[w] = NoTask
          /\ pc[w] \in {"check_skip", "run", "dead"} => task[w] \in Tasks \ finished
          /\ pc[w] = "after_run" =>
                task[w] \in finished \cap Direct /\ Blocks(task[w])

LEMMA InitShape == Init => Shape /\ Lifecycle
<1> SUFFICES ASSUME Init PROVE Shape /\ Lifecycle
  OBVIOUS
<1> USE PoolAssumption DEF Init
<1>1. Shape
  <2>1. /\ pc \in [Threads -> WorkerPCs \cup PosterPCs \cup StopperPCs]
        /\ \A w \in Workers : pc[w] = "get_work"
        /\ \A p \in Posters \cup Stoppers : pc[p] = "idle"
    BY DEF Threads, WorkerPCs, PosterPCs, StopperPCs
  <2>2. /\ task \in [Carriers -> Tasks \cup {NoTask}]
        /\ verdict \in [Tasks -> {"none", "rejected"} \cup Phases]
        /\ joining \in [Stoppers -> SUBSET Workers]
    BY DEF Carriers
  <2>3. \A w \in Workers : pc[w] \in WorkerPCs
    BY <2>1 DEF WorkerPCs
  <2>4. /\ \A p \in Posters : pc[p] \in PosterPCs
        /\ \A o \in Stoppers : pc[o] \in StopperPCs
    BY <2>1 DEF PosterPCs, StopperPCs
  <2>5. /\ started \in BOOLEAN /\ groupStop \in BOOLEAN
        /\ timerStop \in BOOLEAN /\ timerAlive \in BOOLEAN /\ timerHandle \in BOOLEAN
    BY Zenon
  <2>7. numBlocking \in Int
    BY SMT
  <2>6. /\ waiting \subseteq Delayed /\ ready \subseteq Tasks /\ finished \subseteq Tasks
        /\ handles \subseteq Workers
    OBVIOUS
  <2> HIDE DEF Init
  <2> QED BY <2>1, <2>2, <2>3, <2>4, <2>5, <2>6, <2>7 DEF Shape, Carriers
<1>2. Lifecycle
  <2>1. /\ \A w \in Workers : pc[w] = "get_work"
        /\ \A p \in Posters : pc[p] = "idle"
    BY DEF Threads
  <2> QED BY <2>1 DEF Lifecycle, Carriers
<1> QED BY <1>1, <1>2

LEMMA NextShape == Shape /\ Lifecycle /\ [Next]_vars => Shape'
<1> SUFFICES ASSUME Shape, Lifecycle, [Next]_vars PROVE Shape'
  OBVIOUS
<1> USE PoolAssumption DEF Shape, Threads, WorkerPCs, PosterPCs, StopperPCs, Goto,
        groupVars, timerVars
<1>1. ASSUME NEW p \in Posters, NEW t \in Tasks, PostTask(p, t) PROVE Shape'
  <2>1. Phase \in Phases
    BY DEF Phase, Phases
  <2> QED BY <1>1, <2>1 DEF PostTask, WillPostTask, Accept
<1>2. ASSUME NEW p \in Posters, NEW t \in Tasks, RunnerPostTask(p, t) PROVE Shape'
  <2>1. Phase \in Phases
    BY DEF Phase, Phases
  <2> QED BY <1>2, <2>1 DEF RunnerPostTask, Accept
<1>3. ASSUME NEW p \in Posters, Push(p) PROVE Shape'
  <2>1. task[p] \in Tasks
    BY <1>3 DEF Push, Lifecycle
  <2> QED BY <1>3, <2>1 DEF Push
<1>4. ASSUME NEW w \in Workers, GetWork(w) PROVE Shape'
  BY <1>4 DEF GetWork
<1>5. ASSUME NEW w \in Workers, CheckSkip(w) \/ Run(w) \/ Panic(w) PROVE Shape'
  <2>1. CASE CheckSkip(w)
    BY <2>1 DEF CheckSkip
  <2>2. CASE Run(w)
    <3>1. task[w] \in Tasks
      BY <2>2 DEF Run, Lifecycle
    <3> QED BY <2>2, <3>1 DEF Run
  <2>3. CASE Panic(w)
    BY <2>3 DEF Panic
  <2> QED BY <1>5, <2>1, <2>2, <2>3
<1>6. ASSUME NEW w \in Workers, AfterRunTask(w) PROVE Shape'
  <2>1. pc' \in [Threads -> WorkerPCs \cup PosterPCs \cup StopperPCs]
    BY <1>6 DEF AfterRunTask
  <2>2. \A th \in Threads :
           pc'[th] = pc[th] \/ (th = w /\ pc'[th] = "get_work")
                            \/ (pc[th] = "wait" /\ pc'[th] = "recheck")
    BY <1>6 DEF AfterRunTask
  <2> QED BY <1>6, <2>1, <2>2 DEF AfterRunTask
<1>7. ASSUME NEW t \in Tasks, Fire(t) PROVE Shape'
  BY <1>7 DEF Fire
<1>8. CASE TimerExit
  BY <1>8 DEF TimerExit
<1>9. ASSUME NEW o \in Stoppers,
             BeginShutdown(o) \/ SpuriousWake(o) \/ AwaitBlocking(o) \/ JoinAll(o)
      PROVE  Shape'
  <2>1. CASE BeginShutdown(o)
    BY <2>1 DEF BeginShutdown
  <2>2. CASE SpuriousWake(o) \/ AwaitBlocking(o)
    BY <2>2 DEF SpuriousWake, AwaitBlocking
  <2>3. CASE JoinAll(o)
    BY <2>3 DEF JoinAll
  <2> QED BY <1>9, <2>1, <2>2, <2>3
<1>10. ASSUME NEW o \in Stoppers, TakeHandles(o) \/ JoinWorkers(o)
       PROVE  Shape'
  BY <1>10 DEF TakeHandles, JoinWorkers
<1>11. ASSUME NEW o \in Stoppers, StopTimer(o) \/ TakeTimer(o) \/ JoinTimer(o)
       PROVE  Shape'
  BY <1>11 DEF StopTimer, TakeTimer, JoinTimer
<1>12. CASE UNCHANGED vars
  BY <1>12 DEF vars
<1> QED
  BY <1>1, <1>2, <1>3, <1>4, <1>5, <1>6, <1>7, <1>8, <1>9, <1>10, <1>11, <1>12
  DEF Next, WorkerStep, ShutdownStep, Done

\* A step that leaves the tasks, and who carries them where, as they were.
LEMMA SameLifecycle ==
    ASSUME Lifecycle,
           UNCHANGED <<task, verdict, finished, ready, waiting>>,
           \A x \in Carriers : pc'[x] = pc[x]
    PROVE  Lifecycle'
BY DEF Lifecycle, Carriers, Accepted

LEMMA NextLifecycle == Shape /\ Lifecycle /\ [Next]_vars => Lifecycle'
<1> SUFFICES ASSUME Shape, Lifecycle, [Next]_vars PROVE Lifecycle'
  OBVIOUS
<1> USE PoolAssumption DEF Carriers, groupVars, timerVars
<1>p. /\ pc \in [Threads -> WorkerPCs \cup PosterPCs \cup StopperPCs]
      /\ task \in [Carriers -> Tasks \cup {NoTask}]
      /\ verdict \in [Tasks -> {"none", "rejected"} \cup Phases]
      /\ Carriers \subseteq Threads /\ Stoppers \subseteq Threads
      /\ Carriers \cap Stoppers = {} /\ Workers \cap Posters = {}
  BY DEF Shape, Threads
<1>a. ASSUME NEW p \in Posters, NEW t \in Tasks, verdict[t] = "none", pc[p] = "idle",
             Accept(p, t), UNCHANGED <<finished, ready, waiting>>
      PROVE  Lifecycle'
  <2>1. Phase \in Phases
    BY DEF Phase, Phases
  <2>2. /\ \A u \in Tasks : verdict'[u] = IF u = t THEN Phase ELSE verdict[u]
        /\ \A x \in Carriers : task'[x] = IF x = p THEN t ELSE task[x]
        /\ \A x \in Carriers : pc'[x] = IF x = p THEN "push" ELSE pc[x]
    BY <1>a, <1>p DEF Accept, Goto
  <2>3. t \notin Accepted /\ Accepted' = Accepted \cup {t}
    BY <1>a, <2>1, <2>2 DEF Accepted, Phases
  <2>4. t \notin finished \cup ready \cup waiting /\ \A x \in Carriers : task[x] # t
    BY <2>3 DEF Lifecycle
  <2> QED BY <1>a, <2>2, <2>3, <2>4 DEF Lifecycle
<1>b. ASSUME NEW p \in Posters, NEW t \in Tasks, verdict[t] = "none",
             verdict' = [verdict EXCEPT ![t] = "rejected"],
             UNCHANGED <<pc, task, finished, ready, waiting>>
      PROVE  Lifecycle'
  <2>1. Accepted' = Accepted
    BY <1>b, <1>p DEF Accepted, Phases
  <2> QED BY <1>b, <2>1 DEF Lifecycle
<1>1. ASSUME NEW p \in Posters, NEW t \in Tasks, PostTask(p, t) PROVE Lifecycle'
  BY <1>1, <1>a, <1>b DEF PostTask, WillPostTask
<1>2. ASSUME NEW p \in Posters, NEW t \in Tasks, RunnerPostTask(p, t) PROVE Lifecycle'
  BY <1>2, <1>a DEF RunnerPostTask
<1>3. ASSUME NEW p \in Posters, Push(p) PROVE Lifecycle'
  <2>1. /\ \A x \in Carriers : task'[x] = IF x = p THEN NoTask ELSE task[x]
        /\ \A x \in Carriers : pc'[x] = IF x = p THEN "idle" ELSE pc[x]
    BY <1>3, <1>p DEF Push, Goto
  <2>2. /\ Accepted' = Accepted /\ finished' = finished
        /\ ready' \cup waiting' = ready \cup waiting \cup {task[p]}
        /\ ready' \cap waiting' = {}
    BY <1>3 DEF Push, Accepted, Lifecycle
  <2>3. task[p] \in Accepted \ finished /\ task[p] # NoTask
    BY <1>3 DEF Push, Lifecycle
  <2> QED BY <1>3, <2>1, <2>2, <2>3 DEF Lifecycle
<1>c. ASSUME NEW w \in Workers, NEW l, task' = [task EXCEPT ![w] = NoTask],
             l \in {"get_work", "exited"}, Goto(w, l),
             UNCHANGED <<verdict, finished, ready, waiting>>
      PROVE  Lifecycle'
  <2>1. /\ \A x \in Carriers : task'[x] = IF x = w THEN NoTask ELSE task[x]
        /\ \A x \in Carriers : pc'[x] = IF x = w THEN l ELSE pc[x]
    BY <1>c, <1>p DEF Goto
  <2>2. Accepted' = Accepted
    BY <1>c DEF Accepted
  <2> QED BY <1>c, <2>1, <2>2 DEF Lifecycle
<1>4. ASSUME NEW w \in Workers, GetWork(w) PROVE Lifecycle'
  <2>0. task[w] = NoTask /\ Accepted' = Accepted
    BY <1>4 DEF GetWork, Lifecycle, Accepted
  <2>1. CASE Goto(w, "exited") /\ UNCHANGED <<ready, task>>
    <3>1. \A x \in Carriers : pc'[x] = IF x = w THEN "exited" ELSE pc[x]
      BY <2>1, <1>p DEF Goto
    <3> QED BY <1>4, <2>0, <2>1, <3>1 DEF GetWork, Lifecycle
  <2>2. CASE ~groupStop
    <3>1. PICK t \in ready : /\ ready' = ready \ {t}
                             /\ task' = [task EXCEPT ![w] = t]
                             /\ Goto(w, IF t \in Direct THEN "check_skip" ELSE "run")
      BY <1>4, <2>2 DEF GetWork
    <3>2. \A x \in Carriers :
             /\ task'[x] = IF x = w THEN t ELSE task[x]
             /\ x # w => pc'[x] = pc[x]
      BY <1>p, <3>1 DEF Goto
    <3>3. pc'[w] \in {"check_skip", "run"}
      BY <1>p, <3>1 DEF Goto
    <3>4. t \in (Accepted \ finished) /\ t \notin waiting /\ t \in Tasks
          /\ \A x \in Carriers : task[x] # t
      BY <3>1 DEF Lifecycle, Shape
    <3>5. UNCHANGED <<verdict, finished, waiting>>
      BY <1>4 DEF GetWork
    <3> QED BY <2>0, <3>1, <3>2, <3>3, <3>4, <3>5 DEF Lifecycle
  <2> QED BY <1>4, <2>1, <2>2 DEF GetWork
<1>5. ASSUME NEW w \in Workers, CheckSkip(w) PROVE Lifecycle'
  <2>1. CASE Goto(w, "run") /\ UNCHANGED task
    <3>1. \A x \in Carriers : pc'[x] = IF x = w THEN "run" ELSE pc[x]
      BY <2>1, <1>p DEF Goto
    <3>2. Accepted' = Accepted /\ UNCHANGED <<finished, ready, waiting>>
      BY <1>5 DEF CheckSkip, Accepted
    <3> QED BY <1>5, <2>1, <3>1, <3>2 DEF CheckSkip, Lifecycle
  <2> QED BY <1>5, <1>c, <2>1 DEF CheckSkip
<1>6. ASSUME NEW w \in Workers, Run(w) PROVE Lifecycle'
  <2>0. /\ task[w] \in Tasks \ finished /\ task[w] # NoTask
        /\ Accepted' = Accepted /\ UNCHANGED <<ready, waiting>>
        /\ finished' = finished \cup {task[w]}
    BY <1>6 DEF Run, Lifecycle, Accepted
  <2>1. \A x \in Carriers :
           /\ x # w => pc'[x] = pc[x] /\ task'[x] = task[x] /\ task[x] # task[w]
           /\ task'[x] \in {task[x], NoTask}
    BY <1>6, <1>p, <2>0 DEF Run, Goto, Lifecycle
  <2>2. \/ pc'[w] = "after_run" /\ task'[w] = task[w]
           /\ task[w] \in Direct /\ Blocks(task[w])
        \/ pc'[w] = "get_work" /\ task'[w] = NoTask
    BY <1>6, <1>p DEF Run, Goto
  <2> QED BY <2>0, <2>1, <2>2 DEF Lifecycle
<1>7. ASSUME NEW w \in Workers, Panic(w) PROVE Lifecycle'
  <2>1. \A x \in Carriers : pc'[x] = IF x = w THEN "dead" ELSE pc[x]
    BY <1>7, <1>p DEF Panic, Goto
  <2>2. Accepted' = Accepted /\ UNCHANGED <<finished, ready, waiting, task>>
    BY <1>7 DEF Panic, Accepted
  <2> QED BY <1>7, <2>1, <2>2 DEF Panic, Lifecycle
<1>8. ASSUME NEW w \in Workers, AfterRunTask(w) PROVE Lifecycle'
  <2>1. \A x \in Carriers : pc'[x] = IF x = w THEN "get_work" ELSE pc[x]
    <3>1. \A x \in Carriers : pc[x] # "wait"
      BY DEF Shape, WorkerPCs, PosterPCs
    <3> QED BY <1>8, <1>p, <3>1 DEF AfterRunTask
  <2>2. \A x \in Carriers : task'[x] = IF x = w THEN NoTask ELSE task[x]
    BY <1>8, <1>p DEF AfterRunTask
  <2>3. Accepted' = Accepted /\ UNCHANGED <<finished, ready, waiting>>
    BY <1>8 DEF AfterRunTask, Accepted
  <2> QED BY <2>1, <2>2, <2>3 DEF Lifecycle
<1>9. ASSUME NEW t \in Tasks, Fire(t) PROVE Lifecycle'
  <2>1. Accepted' = Accepted /\ UNCHANGED <<finished, task, pc>>
    BY <1>9 DEF Fire, Accepted
  <2>2. ready' \cup waiting' = ready \cup waiting /\ ready' \cap waiting' = {}
    BY <1>9 DEF Fire, Lifecycle
  <2> QED BY <2>1, <2>2 DEF Lifecycle
<1>10. ASSUME NEW o \in Stoppers, BeginShutdown(o) \/ ShutdownStep(o) \/ SpuriousWake(o)
       PROVE  Lifecycle'
  <2>1. \A x \in Carriers : pc'[x] = pc[x]
    BY <1>10, <1>p
    DEF BeginShutdown, ShutdownStep, SpuriousWake, AwaitBlocking, JoinAll, TakeHandles,
        JoinWorkers, StopTimer, TakeTimer, JoinTimer, Goto
  <2>2. UNCHANGED <<task, verdict, finished, ready, waiting>>
    BY <1>10
    DEF BeginShutdown, ShutdownStep, SpuriousWake, AwaitBlocking, JoinAll, TakeHandles,
        JoinWorkers, StopTimer, TakeTimer, JoinTimer
  <2> QED BY <2>1, <2>2, SameLifecycle
<1>11. CASE TimerExit \/ UNCHANGED vars
  BY <1>11, SameLifecycle DEF TimerExit, vars
<1> QED
  BY <1>1, <1>2, <1>3, <1>4, <1>5, <1>6, <1>7, <1>8, <1>9, <1>10, <1>11
  DEF Next, WorkerStep, Done

-----------------------------------------------------------------------------
(* The count of tasks that block the shutdown *)

\* Nobody is past the tracker while a task is counted, and a caller that waits
\* there has set the flag, so that no task is counted any more.
Gate ==
    /\ \A o \in Stoppers : pc[o] # "idle" => started
    /\ \A o \in Stoppers : pc[o] \in PastTracker => numBlocking = 0
    /\ NoLostNotification

Counted == CountExact /\ Gate

LEMMA UnaccountedFinite ==
    /\ IsFiniteSet(Unaccounted)
    /\ Cardinality(Unaccounted) \in Nat
    /\ Cardinality(Unaccounted) = 0 <=> Unaccounted = {}
<1>1. Unaccounted \in SUBSET Tasks
  BY DEF Unaccounted, Accepted
<1>2. IsFiniteSet(Unaccounted)
  BY <1>1, FS_Subset, PoolAssumption
<1> QED BY <1>2, FS_CardinalityType, FS_EmptySet

LEMMA InitCounted == Init => Counted
<1> SUFFICES ASSUME Init PROVE Counted
  OBVIOUS
<1>1. Unaccounted = {}
  BY DEF Init, Unaccounted, Accepted, Phases
<1>2. CountExact
  BY <1>1, FS_EmptySet DEF Init, CountExact
<1>3. \A o \in Stoppers : pc[o] = "idle"
  BY PoolAssumption DEF Init, Threads
<1>4. Gate
  BY <1>3 DEF Gate, NoLostNotification, PastTracker
<1> QED BY <1>2, <1>4 DEF Counted

\* A step that finishes, counts and accepts nothing keeps the count exact.
LEMMA SameCount ==
    ASSUME CountExact, numBlocking' = numBlocking, Unaccounted' = Unaccounted
    PROVE  CountExact'
BY DEF CountExact

LEMMA NextCounted ==
    Shape /\ Lifecycle /\ Counted /\ [Next]_vars => Counted'
<1> SUFFICES ASSUME Shape, Lifecycle, CountExact, Gate, [Next]_vars PROVE Counted'
  BY DEF Counted
<1> USE PoolAssumption DEF groupVars, timerVars
<1>p. /\ pc \in [Threads -> WorkerPCs \cup PosterPCs \cup StopperPCs]
      /\ task \in [Carriers -> Tasks \cup {NoTask}]
      /\ verdict \in [Tasks -> {"none", "rejected"} \cup Phases]
      /\ Threads = Workers \cup Posters \cup Stoppers
      /\ Workers \cap Posters = {} /\ Workers \cap Stoppers = {}
      /\ Posters \cap Stoppers = {} /\ numBlocking \in Int
      /\ Carriers = Workers \cup Posters
  BY DEF Shape, Threads, Carriers
<1>n. numBlocking \in Nat
  BY UnaccountedFinite DEF CountExact
<1>g. ASSUME UNCHANGED <<started, numBlocking>>, \A o \in Stoppers : pc'[o] = pc[o]
      PROVE  Gate'
  BY <1>g DEF Gate, NoLostNotification
<1>a. ASSUME NEW p \in Posters, NEW t \in Tasks, verdict[t] = "none",
             Accept(p, t), UNCHANGED finished
      PROVE  /\ Unaccounted' = IF t \in Direct /\ Blocks(t)
                               THEN Unaccounted \cup {t} ELSE Unaccounted
             /\ t \notin Unaccounted
             /\ \A o \in Stoppers : pc'[o] = pc[o]
  <2>1. Phase \in Phases
    BY DEF Phase, Phases
  <2>2. /\ \A u \in Tasks : verdict'[u] = IF u = t THEN Phase ELSE verdict[u]
        /\ \A x \in Carriers : task'[x] = IF x = p THEN t ELSE task[x]
        /\ \A x \in Threads : pc'[x] = IF x = p THEN "push" ELSE pc[x]
    BY <1>a, <1>p DEF Accept, Goto
  <2>3. t \notin Accepted /\ Accepted' = Accepted \cup {t} /\ t \notin finished
    BY <1>a, <2>1, <2>2 DEF Accepted, Phases, Lifecycle
  <2>4. \A w \in Workers : pc'[w] = pc[w] /\ task'[w] = task[w]
    BY <1>p, <2>2
  <2>5. \A o \in Stoppers : pc'[o] = pc[o]
    BY <1>p, <2>2
  <2> QED BY <1>a, <2>3, <2>4, <2>5 DEF Unaccounted
<1>1. ASSUME NEW p \in Posters, NEW t \in Tasks, PostTask(p, t) PROVE Counted'
  <2>1. CASE UNCHANGED <<pc, task, numBlocking>> /\ verdict' = [verdict EXCEPT ![t] = "rejected"]
    <3>1. Accepted' = Accepted
      BY <1>1, <1>p, <2>1 DEF PostTask, Accepted, Phases
    <3>2. Unaccounted' = Unaccounted
      BY <1>1, <2>1, <3>1 DEF PostTask, Unaccounted
    <3> QED BY <1>1, <1>g, <2>1, <3>2, SameCount DEF PostTask, Counted
  <2>2. CASE started /\ Behavior[t] = "ContinueOnShutdown" /\ Accept(p, t) /\ UNCHANGED numBlocking
    <3>1. ~Blocks(t)
      BY <2>2 DEF Blocks
    <3> QED BY <1>1, <1>a, <1>g, <2>2, <3>1, SameCount DEF PostTask, Counted
  <2>3. CASE /\ ~started /\ Accept(p, t)
             /\ numBlocking' = IF Blocks(t) THEN numBlocking + 1 ELSE numBlocking
    <3>1. /\ Unaccounted' = IF Blocks(t) THEN Unaccounted \cup {t} ELSE Unaccounted
          /\ t \notin Unaccounted /\ \A o \in Stoppers : pc'[o] = pc[o]
      BY <1>1, <1>a, <2>3 DEF PostTask
    <3>2. CountExact'
      BY <2>3, <3>1, UnaccountedFinite, FS_AddElement DEF CountExact
    <3>3. \A o \in Stoppers : pc[o] = "idle"
      BY <2>3 DEF Gate
    <3>4. Gate'
      BY <1>1, <3>1, <3>3 DEF Gate, NoLostNotification, PastTracker
    <3> QED BY <3>2, <3>4 DEF Counted
  <2> QED BY <1>1, <2>1, <2>2, <2>3 DEF PostTask, WillPostTask
<1>2. ASSUME NEW p \in Posters, NEW t \in Tasks, RunnerPostTask(p, t) PROVE Counted'
  BY <1>2, <1>a, <1>g, SameCount DEF RunnerPostTask, Counted
<1>3. ASSUME NEW p \in Posters, Push(p) PROVE Counted'
  <2>1. /\ \A x \in Threads : x # p => pc'[x] = pc[x]
        /\ \A x \in Carriers : x # p => task'[x] = task[x]
    BY <1>3, <1>p DEF Push, Goto
  <2>2. Accepted' = Accepted
    BY <1>3 DEF Push, Accepted
  <2>3. \A w \in Workers : pc'[w] = pc[w] /\ task'[w] = task[w]
    BY <1>p, <2>1
  <2>4. Unaccounted' = Unaccounted
    BY <1>3, <2>2, <2>3 DEF Push, Unaccounted
  <2> QED BY <1>3, <1>g, <1>p, <2>1, <2>4, SameCount DEF Push, Counted
<1>w. ASSUME NEW w \in Workers, UNCHANGED <<started, numBlocking, verdict, finished>>,
             pc[w] # "after_run", pc'[w] # "after_run",
             \A x \in Threads : x # w => pc'[x] = pc[x],
             \A x \in Carriers : x # w => task'[x] = task[x]
      PROVE  Counted'
  <2>1. Accepted' = Accepted
    BY <1>w DEF Accepted
  <2>2. \A v \in Workers : /\ pc'[v] = "after_run" <=> pc[v] = "after_run"
                           /\ pc[v] = "after_run" => task'[v] = task[v]
    BY <1>p, <1>w
  <2>3. Unaccounted' = Unaccounted
    BY <1>w, <2>1, <2>2 DEF Unaccounted
  <2> QED BY <1>g, <1>p, <1>w, <2>3, SameCount DEF Counted
<1>4. ASSUME NEW w \in Workers, GetWork(w) \/ CheckSkip(w) \/ Panic(w) PROVE Counted'
  <2>1. CASE GetWork(w)
    <3>1. /\ pc[w] # "after_run" /\ pc'[w] # "after_run"
          /\ \A x \in Threads : x # w => pc'[x] = pc[x]
      BY <1>p, <2>1 DEF GetWork, Goto
    <3>2. \A x \in Carriers : x # w => task'[x] = task[x]
      BY <1>p, <2>1 DEF GetWork
    <3> QED BY <1>w, <2>1, <3>1, <3>2 DEF GetWork
  <2>2. CASE CheckSkip(w) \/ Panic(w)
    <3>1. /\ pc[w] # "after_run" /\ pc'[w] # "after_run"
          /\ \A x \in Threads : x # w => pc'[x] = pc[x]
      BY <1>p, <2>2 DEF CheckSkip, Panic, Goto
    <3>2. \A x \in Carriers : x # w => task'[x] = task[x]
      BY <1>p, <2>2 DEF CheckSkip, Panic
    <3> QED BY <1>w, <2>2, <3>1, <3>2 DEF CheckSkip, Panic
  <2> QED BY <1>4, <2>1, <2>2
<1>5. ASSUME NEW w \in Workers, Run(w) PROVE Counted'
  <2> DEFINE t == task[w]
  <2>1. /\ t \in Tasks \ finished /\ finished' = finished \cup {t}
        /\ Accepted' = Accepted
        /\ \A v \in Workers : v # w => task[v] # t
    BY <1>5, <1>p DEF Run, Lifecycle, Accepted
  <2>2. /\ \A x \in Threads : x # w => pc'[x] = pc[x]
        /\ \A x \in Carriers : x # w => task'[x] = task[x]
        /\ pc[w] = "run"
    BY <1>5, <1>p DEF Run, Goto
  <2>3. /\ t \in Direct /\ Blocks(t) => pc'[w] = "after_run" /\ task'[w] = t
        /\ ~(t \in Direct /\ Blocks(t)) => pc'[w] = "get_work"
    BY <1>5, <1>p DEF Run, Goto
  <2>4. \A v \in Workers : v # w => pc'[v] = pc[v] /\ task'[v] = task[v]
    BY <1>p, <2>2
  <2>5. Unaccounted' = Unaccounted
    <3>1. \A u \in Accepted \cap Direct : Blocks(u) =>
             ((u \in finished =>
                  \E v \in Workers : pc[v] = "after_run" /\ task[v] = u)
              <=> (u \in finished' =>
                  \E v \in Workers : pc'[v] = "after_run" /\ task'[v] = u))
      <4> TAKE u \in Accepted \cap Direct
      <4> HAVE Blocks(u)
      <4>1. CASE u = t
        BY <2>1, <2>3, <4>1
      <4>2. CASE u # t
        <5>1. u \in finished' <=> u \in finished
          BY <2>1, <4>2
        <5>2. \A v \in Workers : (pc[v] = "after_run" /\ task[v] = u) <=>
                                 (pc'[v] = "after_run" /\ task'[v] = u)
          BY <2>2, <2>3, <2>4, <4>2
        <5> QED BY <5>1, <5>2
      <4> QED BY <4>1, <4>2
    <3> QED BY <2>1, <3>1 DEF Unaccounted
  <2> QED BY <1>5, <1>g, <1>p, <2>2, <2>5, SameCount DEF Run, Counted
<1>6. ASSUME NEW w \in Workers, AfterRunTask(w) PROVE Counted'
  <2> DEFINE t == task[w]
  <2>1. /\ t \in finished /\ t \in Direct /\ Blocks(t) /\ t \in Accepted /\ t # NoTask
        /\ \A v \in Workers : v # w => task[v] # t
        /\ Accepted' = Accepted /\ finished' = finished
        /\ numBlocking' = numBlocking - 1 /\ pc[w] = "after_run"
    BY <1>6, <1>p DEF AfterRunTask, Lifecycle, Accepted
  <2>2. /\ t \in Unaccounted
        /\ \A v \in Workers : v # w => task'[v] = task[v]
        /\ pc'[w] = "get_work"
    BY <1>6, <1>p, <2>1 DEF AfterRunTask, Unaccounted
  <2>3. \A v \in Workers : v # w => (pc'[v] = "after_run" <=> pc[v] = "after_run")
    BY <1>6, <1>p DEF AfterRunTask
  <2>4. Unaccounted' = Unaccounted \ {t}
    BY <2>1, <2>2, <2>3 DEF Unaccounted
  <2>5. CountExact'
    BY <2>1, <2>2, <2>4, UnaccountedFinite, FS_RemoveElement DEF CountExact
  <2>6. numBlocking > 0
    BY <1>n, <2>2, UnaccountedFinite DEF CountExact
  <2>7. \A o \in Stoppers :
           pc'[o] = IF numBlocking' = 0 /\ pc[o] = "wait" THEN "recheck" ELSE pc[o]
    BY <1>6, <1>p DEF AfterRunTask
  <2>8. Gate'
    BY <1>6, <1>n, <2>1, <2>6, <2>7
    DEF Gate, NoLostNotification, PastTracker, AfterRunTask
  <2> QED BY <2>5, <2>8 DEF Counted
<1>7. ASSUME NEW t \in Tasks, Fire(t) PROVE Counted'
  <2>1. Unaccounted' = Unaccounted
    BY <1>7 DEF Fire, Unaccounted, Accepted
  <2> QED BY <1>7, <1>g, <2>1, SameCount DEF Fire, Counted
<1>8. CASE TimerExit \/ UNCHANGED vars
  <2>1. Unaccounted' = Unaccounted
    BY <1>8 DEF TimerExit, vars, Unaccounted, Accepted
  <2> QED BY <1>8, <1>g, <2>1, SameCount DEF TimerExit, vars, Counted
<1>9. ASSUME NEW o \in Stoppers, BeginShutdown(o) \/ ShutdownStep(o) \/ SpuriousWake(o)
      PROVE  Counted'
  <2>1. /\ \A x \in Threads : x # o => pc'[x] = pc[x]
        /\ UNCHANGED <<numBlocking, task, verdict, finished>>
    BY <1>9, <1>p
    DEF BeginShutdown, ShutdownStep, SpuriousWake, AwaitBlocking, JoinAll, TakeHandles,
        JoinWorkers, StopTimer, TakeTimer, JoinTimer, Goto
  <2>2. \A w \in Workers : pc'[w] = pc[w]
    BY <1>p, <2>1
  <2>3. Unaccounted' = Unaccounted
    BY <2>1, <2>2 DEF Unaccounted, Accepted
  <2>4. /\ started'
        /\ pc'[o] = "wait" => numBlocking > 0
        /\ pc'[o] \in PastTracker => numBlocking = 0
    <3>1. CASE BeginShutdown(o)
      BY <1>p, <3>1 DEF BeginShutdown, Goto, PastTracker
    <3>2. CASE AwaitBlocking(o)
      BY <1>n, <1>p, <3>2 DEF AwaitBlocking, Goto, PastTracker, Gate
    <3>3. CASE SpuriousWake(o)
      BY <1>p, <3>3 DEF SpuriousWake, Goto, PastTracker, Gate
    <3>4. CASE JoinAll(o) \/ TakeHandles(o) \/ JoinWorkers(o) \/ StopTimer(o)
               \/ TakeTimer(o) \/ JoinTimer(o)
      <4>1. pc[o] \in PastTracker /\ pc[o] # "idle" /\ started' = started /\ pc'[o] # "wait"
        BY <1>p, <3>4
        DEF JoinAll, TakeHandles, JoinWorkers, StopTimer, TakeTimer, JoinTimer, Goto,
            PastTracker
      <4> QED BY <4>1 DEF Gate
    <3> QED BY <1>9, <3>1, <3>2, <3>3, <3>4 DEF ShutdownStep
  <2>5. Gate'
    BY <1>p, <2>1, <2>4 DEF Gate, NoLostNotification
  <2> QED BY <2>1, <2>3, <2>5, SameCount DEF Counted
<1> QED
  BY <1>1, <1>2, <1>3, <1>4, <1>5, <1>6, <1>7, <1>8, <1>9
  DEF Next, WorkerStep, Done

-----------------------------------------------------------------------------
(* What is left running when shutdown has returned *)

AfterTake == {"join_workers", "stop_timer", "take_timer", "join_timer", "returned"}
AfterJoin == {"stop_timer", "take_timer", "join_timer", "returned"}

\* Every handle is in the group or with the one caller that took it, and a caller
\* that is past its join has seen the threads it joined end.
Handles ==
    /\ \A w \in Workers : w \in handles \/ \E o \in Stoppers : w \in joining[o]
    /\ \A o \in Stoppers : /\ pc[o] \in AfterTake => handles = {}
                           /\ pc[o] \notin AfterTake => joining[o] = {}
                           /\ pc[o] \in AfterJoin => \A w \in joining[o] :
                                                       pc[w] \in {"exited", "dead"}
                           /\ pc[o] \in {"join_timer", "returned"} => ~timerHandle
    /\ timerAlive /\ ~timerHandle => \E o \in Stoppers : pc[o] = "join_timer"

LEMMA HandlesQuiet == Handles => QuietAfterShutdown
BY DEF Handles, QuietAfterShutdown, Returned, AfterTake, AfterJoin

LEMMA InitHandles == Init => Handles
<1> SUFFICES ASSUME Init PROVE Handles
  OBVIOUS
<1>1. \A o \in Stoppers : pc[o] = "idle" /\ joining[o] = {}
  BY PoolAssumption DEF Init, Threads
<1> QED BY <1>1 DEF Init, Handles, AfterTake, AfterJoin

LEMMA NextHandles == Shape /\ Gate /\ Handles /\ [Next]_vars => Handles'
<1> SUFFICES ASSUME Shape, Gate, Handles, [Next]_vars PROVE Handles'
  OBVIOUS
<1> USE PoolAssumption DEF groupVars, timerVars
<1>p. /\ pc \in [Threads -> WorkerPCs \cup PosterPCs \cup StopperPCs]
      /\ Threads = Workers \cup Posters \cup Stoppers
      /\ Workers \cap Posters = {} /\ Workers \cap Stoppers = {}
      /\ Posters \cap Stoppers = {}
      /\ joining \in [Stoppers -> SUBSET Workers] /\ handles \subseteq Workers
  BY DEF Shape, Threads
<1>w. ASSUME UNCHANGED <<handles, joining, timerAlive, timerHandle>>,
             \A o \in Stoppers : pc'[o] = pc[o],
             \A w \in Workers : pc[w] \in {"exited", "dead"} => pc'[w] = pc[w]
      PROVE  Handles'
  BY <1>w, <1>p DEF Handles
<1>1. ASSUME NEW p \in Posters, NEW t \in Tasks,
             PostTask(p, t) \/ RunnerPostTask(p, t)
      PROVE  Handles'
  <2>1. \A x \in Threads : x # p => pc'[x] = pc[x]
    BY <1>1, <1>p DEF PostTask, WillPostTask, RunnerPostTask, Accept, Goto
  <2>2. UNCHANGED <<handles, joining, timerAlive, timerHandle>>
    BY <1>1 DEF PostTask, RunnerPostTask
  <2> QED BY <1>p, <1>w, <2>1, <2>2
<1>7. ASSUME NEW p \in Posters, Push(p) PROVE Handles'
  <2>1. \A x \in Threads : x # p => pc'[x] = pc[x]
    BY <1>7, <1>p DEF Push, Goto
  <2>2. UNCHANGED <<handles, joining, timerAlive, timerHandle>>
    BY <1>7 DEF Push
  <2> QED BY <1>p, <1>w, <2>1, <2>2
<1>2. ASSUME NEW w \in Workers,
             GetWork(w) \/ CheckSkip(w) \/ Run(w) \/ Panic(w)
      PROVE  Handles'
  <2>1. \A x \in Threads : x # w => pc'[x] = pc[x]
    BY <1>2, <1>p DEF GetWork, CheckSkip, Run, Panic, Goto
  <2>2. /\ UNCHANGED <<handles, joining, timerAlive, timerHandle>>
        /\ pc[w] \notin {"exited", "dead"}
    BY <1>2 DEF GetWork, CheckSkip, Run, Panic
  <2> QED BY <1>p, <1>w, <2>1, <2>2
<1>3. ASSUME NEW w \in Workers, AfterRunTask(w) PROVE Handles'
  <2>1. /\ \A o \in Stoppers : \/ pc'[o] = pc[o]
                             \/ (pc[o] = "wait" /\ pc'[o] = "recheck")
        /\ \A v \in Workers : pc[v] \in {"exited", "dead"} => pc'[v] = pc[v]
    BY <1>3, <1>p DEF AfterRunTask
  <2>2. UNCHANGED <<handles, joining, timerAlive, timerHandle>>
    BY <1>3 DEF AfterRunTask
  <2> QED BY <1>p, <2>1, <2>2 DEF Handles, AfterTake, AfterJoin
<1>4. ASSUME NEW t \in Tasks, Fire(t) PROVE Handles'
  BY <1>4, <1>w DEF Fire
<1>5. CASE TimerExit \/ UNCHANGED vars
  BY <1>5 DEF TimerExit, vars, Handles
<1>6. ASSUME NEW o \in Stoppers, BeginShutdown(o) \/ ShutdownStep(o) \/ SpuriousWake(o)
      PROVE  Handles'
  <2>1. \A x \in Threads : x # o => pc'[x] = pc[x]
    BY <1>6, <1>p
    DEF BeginShutdown, ShutdownStep, SpuriousWake, AwaitBlocking, JoinAll, TakeHandles,
        JoinWorkers, StopTimer, TakeTimer, JoinTimer, Goto
  <2>2. \A w \in Workers : pc'[w] = pc[w]
    BY <1>p, <2>1
  <2>3. CASE BeginShutdown(o) \/ SpuriousWake(o) \/ AwaitBlocking(o) \/ JoinAll(o)
    <3>1. /\ UNCHANGED <<handles, joining, timerAlive, timerHandle>>
          /\ pc[o] \notin AfterTake /\ pc'[o] \notin AfterTake
      BY <1>p, <2>3
      DEF BeginShutdown, SpuriousWake, AwaitBlocking, JoinAll, Goto, AfterTake
    <3> QED BY <1>p, <2>1, <2>2, <3>1 DEF Handles, AfterTake, AfterJoin
  <2>4. CASE TakeHandles(o)
    <3>1. /\ pc[o] = "take_handles" /\ pc'[o] = "join_workers" /\ handles' = {}
          /\ \A x \in Stoppers : joining'[x] = IF x = o THEN handles ELSE joining[x]
          /\ UNCHANGED <<timerAlive, timerHandle>>
      BY <1>p, <2>4 DEF TakeHandles, Goto
    <3>2. joining[o] = {}
      BY <3>1 DEF Handles, AfterTake
    <3> QED BY <1>p, <2>1, <2>2, <3>1, <3>2 DEF Handles, AfterTake, AfterJoin
  <2>5. CASE JoinWorkers(o)
    <3>1. /\ pc[o] = "join_workers" /\ pc'[o] = "stop_timer"
          /\ \A w \in joining[o] : pc[w] \in {"exited", "dead"}
          /\ UNCHANGED <<handles, joining, timerAlive, timerHandle>>
      BY <1>p, <2>5 DEF JoinWorkers, Goto
    <3> QED BY <1>p, <2>1, <2>2, <3>1 DEF Handles, AfterTake, AfterJoin
  <2>6. CASE StopTimer(o)
    <3>1. /\ pc[o] = "stop_timer" /\ pc'[o] = "take_timer"
          /\ UNCHANGED <<handles, joining, timerAlive, timerHandle>>
      BY <1>p, <2>6 DEF StopTimer, Goto
    <3> QED BY <1>p, <2>1, <2>2, <3>1 DEF Handles, AfterTake, AfterJoin
  <2>7. CASE TakeTimer(o)
    <3>1. /\ pc[o] = "take_timer" /\ timerHandle' = FALSE
          /\ pc'[o] = IF timerHandle THEN "join_timer" ELSE "returned"
          /\ UNCHANGED <<handles, joining, timerAlive>>
      BY <1>p, <2>7 DEF TakeTimer, Goto
    <3> QED BY <1>p, <2>1, <2>2, <3>1 DEF Handles, AfterTake, AfterJoin
  <2>8. CASE JoinTimer(o)
    <3>1. /\ pc[o] = "join_timer" /\ pc'[o] = "returned" /\ ~timerAlive
          /\ UNCHANGED <<handles, joining, timerAlive, timerHandle>>
      BY <1>p, <2>8 DEF JoinTimer, Goto
    <3> QED BY <1>p, <2>1, <2>2, <3>1 DEF Handles, AfterTake, AfterJoin
  <2> QED BY <1>6, <2>3, <2>4, <2>5, <2>6, <2>7, <2>8 DEF ShutdownStep
<1> QED
  BY <1>1, <1>7, <1>2, <1>3, <1>4, <1>5, <1>6
  DEF Next, WorkerStep, Done

-----------------------------------------------------------------------------
(* Theorems *)

IInv == Shape /\ Lifecycle /\ Counted /\ Handles

LEMMA Invariance == Spec => []IInv
<1>1. Init => IInv
  BY InitShape, InitCounted, InitHandles DEF IInv
<1>2. IInv /\ [Next]_vars => IInv'
  BY NextShape, NextLifecycle, NextCounted, NextHandles DEF IInv, Counted
<1> QED BY <1>1, <1>2, PTL DEF Spec

\* num_tasks_blocking_shutdown is the number of accepted BlockShutdown tasks that
\* are not accounted for yet, whatever posts, workers and shutdowns interleave.
THEOREM CountExactHolds == Spec => []CountExact
<1>1. IInv => CountExact
  BY DEF IInv, Counted
<1> QED BY <1>1, Invariance, PTL

\* All variables keep their types; in particular the decrement of
\* after_run_task never underflows.
THEOREM TypeCorrect == Spec => []TypeOK
<1>1. IInv => TypeOK
  BY UnaccountedFinite DEF IInv, Counted, CountExact, TypeOK
<1> QED BY <1>1, Invariance, PTL

\* TaskTracker::shutdown lets nobody pass before every BlockShutdown task the
\* pool accepted has finished.
THEOREM BlockShutdownHonouredHolds == Spec => []BlockShutdownHonoured
<1>1. IInv => BlockShutdownHonoured
  <2> SUFFICES ASSUME IInv, NEW o \in Stoppers, pc[o] \in PastTracker,
                      NEW t \in Accepted \cap Direct, Blocks(t)
               PROVE  t \in finished
    BY DEF BlockShutdownHonoured
  <2>1. Unaccounted = {}
    BY UnaccountedFinite DEF IInv, Counted, CountExact, Gate
  <2> QED BY <2>1 DEF Unaccounted
<1> QED BY <1>1, Invariance, PTL

\* The notify_all of after_run_task reaches every caller of shutdown that sleeps.
THEOREM NoLostNotificationHolds == Spec => []NoLostNotification
<1>1. IInv => NoLostNotification
  BY DEF IInv, Counted, Gate
<1> QED BY <1>1, Invariance, PTL

\* When no call of shutdown is under way and one has returned, every worker and
\* the timer thread have ended.
THEOREM QuietAfterShutdownHolds == Spec => []QuietAfterShutdown
<1>1. IInv => QuietAfterShutdown
  BY HandlesQuiet DEF IInv
<1> QED BY <1>1, Invariance, PTL

=============================================================================

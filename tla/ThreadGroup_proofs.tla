------------------------- MODULE ThreadGroup_proofs -------------------------
(* Theorems about ThreadGroup, for every value of its constants. *)
EXTENDS ThreadGroup, FiniteSetTheorems, FunctionTheorems, SequenceTheorems, TLAPS

-----------------------------------------------------------------------------
(* Sequences and the flush *)

\* Popping entry i of a heap keeps every other entry and adds none.
LEMMA RemoveAtElements ==
    ASSUME NEW S, NEW q \in Seq(S), NEW i \in DOMAIN q
    PROVE  /\ RemoveAt(q, i) \in Seq(S)
           /\ Len(RemoveAt(q, i)) = Len(q) - 1
           /\ \A j \in DOMAIN q : j # i =>
                 \E k \in DOMAIN RemoveAt(q, i) : RemoveAt(q, i)[k] = q[j]
<1> DEFINE r == RemoveAt(q, i)
           a == SubSeq(q, 1, i - 1)
           b == SubSeq(q, i + 1, Len(q))
<1>1. Len(q) \in Nat /\ i \in 1 .. Len(q) /\ DOMAIN q = 1 .. Len(q)
  OBVIOUS
<1>2. /\ a \in Seq(S) /\ Len(a) = i - 1
      /\ \A k \in 1 .. i - 1 : a[k] = q[k]
  <2>1. \A k \in 1 .. i - 1 : q[k] \in S
    BY <1>1
  <2> QED BY <1>1, <2>1, SubSeqProperties
<1>3. /\ b \in Seq(S) /\ Len(b) = Len(q) - i
      /\ \A k \in 1 .. Len(q) - i : b[k] = q[i + k]
  <2>1. \A k \in i + 1 .. Len(q) : q[k] \in S
    BY <1>1
  <2> QED BY <1>1, <2>1, SubSeqProperties
<1> HIDE DEF a, b
<1>5. r = a \o b
  BY DEF a, b, RemoveAt
<1>6. /\ r \in Seq(S) /\ Len(r) = Len(q) - 1 /\ DOMAIN r = 1 .. Len(q) - 1
      /\ \A k \in 1 .. Len(q) - 1 : r[k] = IF k <= i - 1 THEN a[k] ELSE b[k - (i - 1)]
  <2>1. /\ r \in Seq(S) /\ Len(r) = Len(a) + Len(b)
        /\ \A k \in 1 .. Len(a) + Len(b) :
              r[k] = IF k <= Len(a) THEN a[k] ELSE b[k - Len(a)]
    BY <1>2, <1>3, <1>5, ConcatProperties
  <2>2. Len(a) + Len(b) = Len(q) - 1
    BY <1>1, <1>2, <1>3
  <2> QED BY <1>2, <2>1, <2>2
<1> HIDE DEF r
<1>4. ASSUME NEW j \in DOMAIN q, j # i
      PROVE  \E k \in DOMAIN r : r[k] = q[j]
  <2>1. CASE j < i
    <3>1. j \in DOMAIN r /\ r[j] = q[j]
      BY <1>1, <1>2, <1>6, <2>1
    <3> QED BY <3>1
  <2>2. CASE j > i
    <3>1. j - 1 \in DOMAIN r /\ r[j - 1] = b[j - i]
      BY <1>1, <1>6, <2>2
    <3>2. b[j - i] = q[j]
      BY <1>1, <1>3, <2>2
    <3> QED BY <3>1, <3>2
  <2> QED BY <1>1, <1>4, <2>1, <2>2
<1> QED BY <1>4, <1>6 DEF r

-----------------------------------------------------------------------------
(* Types and control *)

Typed == TypeOK /\ Control

LEMMA InitTyped == Init => Typed
<1> SUFFICES ASSUME Init PROVE TypeOK /\ Control
  BY DEF Typed
<1> USE ConstantsAssumption DEF Init, SequencesInit, GroupInit, TimerInit, Threads, Nothing
<1>1. TypeOK
  <2>1. pc \in [Threads -> PCs]
    BY DEF PCs
  <2>2. \A s \in Seqs : /\ immediate[s] \in Seq(TasksOf(s))
                        /\ delayed[s] \subseteq DelayedTasks(s)
                        /\ IsFiniteSet(delayed[s])
    BY FS_EmptySet
  <2>3. heap \in Seq([seq : Seqs, ready : Nat]) /\ queue \in Seq(Seqs)
    OBVIOUS
  <2>4. /\ out \in [Threads -> Handovers] /\ task \in [Workers -> Tasks \cup {NoTask}]
        /\ src \in [Workers -> Seqs \cup {NoSeq}]
    BY DEF Handovers
  <2>5. /\ immediate \in [Seqs -> Seq(Tasks)] /\ nextNum \in [Seqs -> Nat]
        /\ delayed \in [Seqs -> SUBSET [task : Tasks, ready : Nat, num : Nat]]
        /\ hasWorker \in [Seqs -> BOOLEAN]
    OBVIOUS
  <2>6. /\ shutdown \in BOOLEAN /\ stop \in BOOLEAN /\ now \in Nat
        /\ posted \subseteq Tasks /\ finished \subseteq Tasks
        /\ wakeAt \in Nat \cup {NoTimeout}
    OBVIOUS
  <2> HIDE DEF Init, SequencesInit, GroupInit, TimerInit
  <2> QED BY <2>1, <2>2, <2>3, <2>4, <2>5, <2>6 DEF TypeOK
<1>2. Control
  BY DEF Control, WorkerControl, HandingOver, Holding, Popped
<1> QED BY <1>1, <1>2

LEMMA PushTaskTyped ==
    ASSUME Typed, NEW th \in Workers \cup Clients, NEW t \in Tasks, PushTask(th, t),
           th \in Workers => task[th] # NoTask
    PROVE  Typed'
<1> USE ConstantsAssumption DEF Typed, Goto, seqVars, dtmVars, PushTask
<1> DEFINE s == SequenceOf[t]
<1>1. s \in Seqs /\ t \in TasksOf(s) /\ th \in Threads
  BY DEF TasksOf, Threads
<1>2. TypeOK'
  <2>1. Append(immediate[s], t) \in Seq(TasksOf(s)) /\ Append(immediate[s], t) \in Seq(Tasks)
    BY <1>1 DEF TypeOK, TasksOf
  <2>2. out' \in [Threads -> Handovers]
    BY <1>1 DEF TypeOK, Handovers
  <2>3. pc' \in [Threads -> PCs]
    BY <1>1 DEF TypeOK, PCs
  <2>4. /\ immediate' \in [Seqs -> Seq(Tasks)]
        /\ \A r \in Seqs : immediate'[r] \in Seq(TasksOf(r))
    BY <1>1, <2>1 DEF TypeOK
  <2>5. nextNum' \in [Seqs -> Nat]
    BY <1>1 DEF TypeOK
  <2> QED BY <1>1, <2>2, <2>3, <2>4, <2>5 DEF TypeOK, DelayedTasks, TasksOf
<1>3. Control'
  BY <1>1 DEF TypeOK, PCs, Handovers, DelayedTasks, TasksOf, Threads, Control, WorkerControl, HandingOver, Holding, Popped, Nothing
<1> QED BY <1>2, <1>3

LEMMA ReadClockTyped ==
    ASSUME Typed, NEW th \in Workers \cup Clients, NEW t \in Delayed, ReadClock(th, t),
           th \in Workers => task[th] # NoTask
    PROVE  Typed'
<1> USE ConstantsAssumption DEF Typed, Goto, seqVars, dtmVars, ReadClock
<1>1. /\ th \in Threads /\ t \in TasksOf(SequenceOf[t])
      /\ SequenceOf[t] \in Seqs /\ now + Delay[t] \in Nat
  BY DEF TypeOK, TasksOf, Threads
<1>2. TypeOK'
  <2>1. out' \in [Threads -> Handovers]
    BY <1>1 DEF TypeOK, Handovers, TasksOf
  <2>2. pc' \in [Threads -> PCs]
    BY <1>1 DEF TypeOK, PCs
  <2> QED BY <1>1, <2>1, <2>2 DEF TypeOK, DelayedTasks, TasksOf
<1>3. Control'
  <2> USE DEF TypeOK, Control
  <2>1. pc'[th] = "insert" /\ out'[th] # Nothing /\ out'[th].task \in TasksOf(out'[th].seq)
    BY <1>1 DEF Nothing
  <2>2. \A u \in Threads : u # th => pc'[u] = pc[u] /\ out'[u] = out[u]
    BY <1>1
  <2>3. ASSUME NEW w \in Workers PROVE WorkerControl(w)'
    <3>1. WorkerControl(w) /\ w \in Threads
      BY DEF Threads
    <3>2. CASE w = th
      BY <2>1, <3>1, <3>2 DEF WorkerControl, HandingOver, Holding, Popped
    <3>3. CASE w # th
      BY <2>2, <3>1, <3>3 DEF WorkerControl
    <3> QED BY <3>2, <3>3
  <2>4. ASSUME NEW c \in Clients PROVE pc'[c] \in {"idle"} \cup HandingOver
    BY <2>1, <2>2 DEF Threads, HandingOver
  <2>5. pc'[Timer] = pc[Timer] /\ pc'[Owner] = pc[Owner]
    BY <2>2 DEF Threads
  <2>6. \A u \in Threads : /\ pc'[u] \in {"insert", "add", "push"} => out'[u] # Nothing
                           /\ pc'[u] = "insert" => out'[u].task \in TasksOf(out'[u].seq)
    BY <2>1, <2>2
  <2> QED BY <2>3, <2>4, <2>5, <2>6 DEF TasksOf
<1> QED BY <1>2, <1>3

LEMMA PostTyped ==
    ASSUME Typed, NEW c \in Clients, NEW t \in Tasks, Post(c, t)
    PROVE  Typed'
<1>1. c \in Workers \cup Clients /\ c \notin Workers
  BY ConstantsAssumption
<1> QED BY <1>1, PushTaskTyped, ReadClockTyped DEF Post, PostTask

LEMMA PostReplyTyped ==
    ASSUME Typed, NEW w \in Workers, PostReply(w)
    PROVE  Typed'
<1>1. task[w] \in Tasks /\ pc[w] = "reply" /\ Reply[task[w]] # NoTask
  BY ConstantsAssumption DEF Typed, PostReply, Control, WorkerControl, Holding, TypeOK
<1>2. Reply[task[w]] \in Tasks
  BY <1>1, ConstantsAssumption
<1>3. task[w] # NoTask
  BY <1>1, ConstantsAssumption
<1> QED BY <1>1, <1>2, <1>3, PushTaskTyped, ReadClockTyped DEF PostReply, PostTask

LEMMA PushDelayedTaskTyped ==
    ASSUME Typed, NEW th \in Threads, PushDelayedTask(th)
    PROVE  Typed'
<1> USE ConstantsAssumption DEF Typed, Goto, seqVars, dtmVars, PushDelayedTask
<1> DEFINE o == out[th]
           d == [task |-> o.task, ready |-> o.ready, num |-> nextNum[o.seq]]
<1>1. /\ o.seq \in Seqs /\ o.task \in TasksOf(o.seq) /\ o.ready \in Nat
      /\ o.task \in Tasks /\ nextNum[o.seq] \in Nat
  BY DEF TypeOK, Handovers, Control, TasksOf
<1>2. TypeOK'
  <2>1. d \in DelayedTasks(o.seq) /\ d \in [task : Tasks, ready : Nat, num : Nat]
    BY <1>1 DEF DelayedTasks
  <2>2. IsFiniteSet(delayed[o.seq] \cup {d})
    BY <1>1, FS_AddElement DEF TypeOK
  <2>3. /\ delayed' \in [Seqs -> SUBSET [task : Tasks, ready : Nat, num : Nat]]
        /\ \A s \in Seqs : delayed'[s] \subseteq DelayedTasks(s) /\ IsFiniteSet(delayed'[s])
    BY <1>1, <2>1, <2>2 DEF TypeOK
  <2>4. nextNum' \in [Seqs -> Nat] /\ pc' \in [Threads -> PCs]
    BY <1>1 DEF TypeOK, PCs
  <2> QED BY <2>3, <2>4 DEF TypeOK, DelayedTasks, TasksOf
<1>3. Control'
  BY <1>1 DEF TypeOK, PCs, Handovers, DelayedTasks, TasksOf, Threads, Control, WorkerControl, HandingOver, Holding, Popped, Nothing
<1> QED BY <1>2, <1>3

LEMMA AddSequenceTyped ==
    ASSUME Typed, NEW th \in Threads, AddSequence(th)
    PROVE  Typed'
<1> USE ConstantsAssumption DEF Typed, Goto, seqVars, dtmVars, AddSequence
<1>1. TypeOK'
  <2>1. [seq |-> out[th].seq, ready |-> out[th].ready] \in [seq : Seqs, ready : Nat]
    BY DEF Control, TypeOK, Handovers
  <2>2. heap' \in Seq([seq : Seqs, ready : Nat])
    BY <2>1 DEF TypeOK
  <2>3. out' \in [Threads -> Handovers] /\ pc' \in [Threads -> PCs]
    BY DEF TypeOK, Handovers, PCs
  <2> QED BY <2>2, <2>3 DEF TypeOK, DelayedTasks, TasksOf
<1>2. Control'
  BY DEF TypeOK, PCs, Handovers, DelayedTasks, TasksOf, Threads, Control, WorkerControl, HandingOver, Holding, Popped, Nothing
<1> QED BY <1>1, <1>2

LEMMA PushTaskSourceTyped ==
    ASSUME Typed, NEW th \in Threads, PushTaskSource(th)
    PROVE  Typed'
<1> USE ConstantsAssumption DEF Typed, Goto, seqVars, dtmVars, PushTaskSource
<1>1. TypeOK'
  BY SMTT(30) DEF TypeOK, PCs, Handovers, DelayedTasks, TasksOf, Threads, Control, WorkerControl, HandingOver, Holding, Popped, Nothing
<1>2. Control'
  BY DEF TypeOK, PCs, Handovers, DelayedTasks, TasksOf, Threads, Control, WorkerControl, HandingOver, Holding, Popped, Nothing
<1> QED BY <1>1, <1>2

LEMMA NotifyTimerTyped ==
    ASSUME Typed, NEW th \in Threads, NotifyTimer(th)
    PROVE  Typed'
<1> USE ConstantsAssumption DEF Typed, Goto, seqVars, dtmVars, NotifyTimer, WakeTimer
<1>1. /\ th \in Workers \cup Clients /\ th # Timer /\ th # Owner
      /\ Return(th) \in {"get_work", "clear", "idle"}
  BY DEF Control, WorkerControl, HandingOver, Holding, Popped, Nothing, Threads, Return
<1>2. /\ pc' \in [Threads -> PCs] /\ pc'[th] = Return(th)
      /\ pc'[Timer] \in {pc[Timer], "timer_loop"}
      /\ \A v \in Threads \ {th, Timer} : pc'[v] = pc[v]
  BY <1>1 DEF TypeOK, PCs, Threads
<1>3. TypeOK'
  BY <1>2 DEF TypeOK, PCs, Handovers, DelayedTasks, TasksOf, Threads
<1>4. Control'
  <2>1. ASSUME NEW v \in Workers PROVE WorkerControl(v)'
    <3>1. CASE v = th
      <4>1. /\ Return(v) = IF task[v] = NoTask THEN "get_work" ELSE "clear"
            /\ src[v] \in Seqs \cup {NoSeq} /\ WorkerControl(v)
        BY <1>1, <3>1 DEF Return, TypeOK, Control
      <4> QED BY <1>1, <1>2, <3>1, <4>1 DEF WorkerControl, HandingOver, Holding, Popped
    <3>2. CASE v # th
      <4>1. pc'[v] = pc[v]
        BY <1>2, <3>2 DEF Threads
      <4> QED BY <4>1 DEF Control, WorkerControl
    <3> QED BY <3>1, <3>2
  <2>2. /\ \A c \in Clients : pc'[c] \in {"idle"} \cup HandingOver
        /\ pc'[Timer] \in {"timer_loop", "timer_wait", "push", "notify", "exited"}
        /\ pc'[Owner] = pc[Owner]
    BY <1>1, <1>2 DEF Threads, Return, Control, HandingOver
  <2>3. \A v \in Threads : pc'[v] \in {"insert", "add", "push"} => pc'[v] = pc[v]
    BY <1>1, <1>2
  <2> QED BY <2>1, <2>2, <2>3 DEF Control, TasksOf
<1> QED BY <1>3, <1>4

LEMMA NotifyOneTyped ==
    ASSUME Typed, NEW th \in Threads, NotifyOne(th)
    PROVE  Typed'
<1> USE ConstantsAssumption DEF Typed, Goto, seqVars, dtmVars, NotifyOne
<1>1. th \in Workers \cup Clients \cup {Timer} /\ Waiting \subseteq Workers
  BY DEF Control, WorkerControl, HandingOver, Holding, Popped, Nothing, Threads, Waiting
<1>2. CASE Waiting = {} /\ Goto(th, Return(th))
  <2>1. TypeOK'
    BY <1>2 DEF Return, TypeOK, PCs, Handovers, DelayedTasks, TasksOf, Threads
  <2>2. Control'
    BY <1>1, <1>2 DEF Return, TypeOK, PCs, Handovers, DelayedTasks, TasksOf, Threads, Control, WorkerControl, HandingOver, Holding, Popped, Nothing
  <2> QED BY <2>1, <2>2
<1>3. ASSUME NEW w \in Waiting,
             pc' = [pc EXCEPT ![th] = Return(th), ![w] = "get_work"]
      PROVE  Typed'
  <2>1. TypeOK'
    BY <1>1, <1>3, ZenonT(40) DEF Return, TypeOK, PCs, Handovers, DelayedTasks, TasksOf, Threads, Waiting
  <2>2. w # th /\ pc[w] = "waiting"
    BY DEF Waiting
  <2>3. /\ pc'[w] = "get_work" /\ pc'[th] = Return(th)
        /\ Return(th) \in {"timer_loop", "get_work", "clear", "idle"}
        /\ \A v \in Threads \ {th, w} : pc'[v] = pc[v]
    BY <1>1, <1>3, <2>2 DEF TypeOK, Threads, Return
  <2>4. Control'
    <3>1. ASSUME NEW v \in Workers PROVE WorkerControl(v)'
      <4>1. CASE v = th
        <5>1. /\ Return(v) = IF task[v] = NoTask THEN "get_work" ELSE "clear"
              /\ src[v] \in Seqs \cup {NoSeq} /\ WorkerControl(v)
          BY DEF Return, TypeOK, Control
        <5> QED BY <2>3, <4>1, <5>1 DEF WorkerControl, HandingOver, Holding, Popped
      <4>2. CASE v = w
        BY <2>2, <2>3, <4>2 DEF Control, WorkerControl, HandingOver, Holding, Popped, Nothing
      <4>3. CASE v # th /\ v # w
        <5>1. pc'[v] = pc[v]
          BY <2>3, <4>3 DEF Threads
        <5> QED BY <5>1 DEF Control, WorkerControl
      <4> QED BY <4>1, <4>2, <4>3
    <3>2. /\ \A c \in Clients : pc'[c] \in {"idle"} \cup HandingOver
          /\ pc'[Timer] \in {"timer_loop", "timer_wait", "push", "notify", "exited"}
          /\ pc'[Owner] = pc[Owner]
      BY <1>1, <2>3 DEF Threads, Return, Control, HandingOver
    <3>3. \A v \in Threads : pc'[v] \in {"insert", "add", "push"} => pc'[v] = pc[v]
      BY <1>1, <2>3
    <3> QED BY <3>1, <3>2, <3>3 DEF Control, TasksOf
  <2> QED BY <2>1, <2>4
<1> QED BY <1>2, <1>3

LEMMA GetWorkTyped ==
    ASSUME Typed, NEW w \in Workers, GetWork(w)
    PROVE  Typed'
<1> USE ConstantsAssumption DEF Typed, Goto, seqVars, dtmVars, GetWork
<1>1. CASE Goto(w, "exited") /\ UNCHANGED <<queue, src>>
  <2>1. TypeOK'
    BY <1>1 DEF TypeOK, PCs, Handovers, DelayedTasks, TasksOf, Threads
  <2>2. Control'
    BY <1>1 DEF TypeOK, PCs, Handovers, DelayedTasks, TasksOf, Threads, Control, WorkerControl, HandingOver, Holding, Popped, Nothing
  <2> QED BY <2>1, <2>2
<1>2. ASSUME NEW i \in DOMAIN queue, queue' = RemoveAt(queue, i),
             src' = [src EXCEPT ![w] = queue[i]], Goto(w, "will_run")
      PROVE  Typed'
  <2>1. queue' \in Seq(Seqs) /\ queue[i] \in Seqs
    BY <1>2, RemoveAtElements DEF TypeOK
  <2>2. TypeOK'
    <3>1. src' \in [Workers -> Seqs \cup {NoSeq}] /\ pc' \in [Threads -> PCs]
      BY <1>2, <2>1 DEF TypeOK, PCs
    <3> QED BY <2>1, <3>1 DEF TypeOK, PCs, Handovers, DelayedTasks, TasksOf, Threads
  <2>3. Control'
    BY <1>2, <2>1, SMTT(30) DEF TypeOK, PCs, Handovers, DelayedTasks, TasksOf, Threads, Control, WorkerControl, HandingOver, Holding, Popped, Nothing
  <2> QED BY <2>2, <2>3
<1>3. CASE queue = <<>> /\ Goto(w, "waiting") /\ UNCHANGED <<queue, src>>
  <2>1. TypeOK'
    BY <1>3 DEF TypeOK, PCs, Handovers, DelayedTasks, TasksOf, Threads
  <2>2. Control'
    BY <1>3 DEF TypeOK, PCs, Handovers, DelayedTasks, TasksOf, Threads, Control, WorkerControl, HandingOver, Holding, Popped, Nothing
  <2> QED BY <2>1, <2>2
<1> QED BY <1>1, <1>2, <1>3

LEMMA WillRunTaskTyped ==
    ASSUME Typed, NEW w \in Workers, WillRunTask(w)
    PROVE  Typed'
<1> USE ConstantsAssumption DEF Typed, Goto, seqVars, dtmVars, WillRunTask
<1>1. TypeOK'
  <2>1. hasWorker' \in [Seqs -> BOOLEAN]
    BY DEF TypeOK
  <2>2. src' \in [Workers -> Seqs \cup {NoSeq}] /\ pc' \in [Threads -> PCs]
    BY ZenonT(40) DEF TypeOK, PCs
  <2> QED BY <2>1, <2>2 DEF TypeOK, PCs, Handovers, DelayedTasks, TasksOf, Threads
<1>2. CASE src' = [src EXCEPT ![w] = NoSeq] /\ Goto(w, "get_work")
  <2>1. Control'
    BY <1>2 DEF TypeOK, PCs, Handovers, DelayedTasks, TasksOf, Threads, Control, WorkerControl, HandingOver, Holding, Popped, Nothing
  <2> QED BY <1>1, <2>1
<1>3. CASE Goto(w, "take_task") /\ UNCHANGED src
  <2>1. Control'
    BY <1>3 DEF TypeOK, PCs, Handovers, DelayedTasks, TasksOf, Threads, Control, WorkerControl, HandingOver, Holding, Popped, Nothing
  <2> QED BY <1>1, <2>1
<1> QED BY <1>2, <1>3

\* The flush appends tasks of the same sequence.
LEMMA FlushedTasks ==
    ASSUME TypeOK, NEW s \in Seqs, NEW o \in FlushOrders(Expired(s))
    PROVE  /\ [i \in DOMAIN o |-> o[i].task] \in Seq(TasksOf(s))
           /\ Len([i \in DOMAIN o |-> o[i].task]) = Cardinality(Expired(s))
           /\ Cardinality(Expired(s)) \in Nat
           /\ immediate[s] \o [i \in DOMAIN o |-> o[i].task] \in Seq(TasksOf(s))
<1> DEFINE n == Cardinality(Expired(s))
           f == [i \in DOMAIN o |-> o[i].task]
<1>1. IsFiniteSet(Expired(s))
  BY FS_Subset DEF TypeOK, Expired
<1>2. n \in Nat
  BY <1>1, FS_CardinalityType
<1>3. o \in [1 .. n -> Expired(s)]
  BY DEF FlushOrders
<1>4. \A i \in 1 .. n : o[i].task \in TasksOf(s)
  <2>1. Expired(s) \subseteq DelayedTasks(s)
    BY DEF TypeOK, Expired
  <2>2. \A d \in Expired(s) : d.task \in TasksOf(s)
    BY <2>1 DEF DelayedTasks
  <2> QED BY <1>3, <2>2
<1>5. f \in Seq(TasksOf(s)) /\ Len(f) = n
  BY <1>2, <1>3, <1>4
<1> QED BY <1>2, <1>5 DEF TypeOK

LEMMA TakeTaskTyped ==
    ASSUME Typed, NEW w \in Workers, TakeTask(w)
    PROVE  Typed'
<1> USE ConstantsAssumption DEF Typed, Goto, seqVars, dtmVars, TakeTask
<1> DEFINE s == src[w]
<1>1. s \in Seqs /\ pc[w] = "take_task"
  BY DEF Control, WorkerControl, HandingOver, Holding, Popped, Nothing
<1>2. /\ delayed' \in [Seqs -> SUBSET [task : Tasks, ready : Nat, num : Nat]]
      /\ \A r \in Seqs : delayed'[r] \subseteq DelayedTasks(r) /\ IsFiniteSet(delayed'[r])
  <2>1. IsFiniteSet(delayed[s] \ Expired(s))
    BY <1>1, FS_Difference DEF TypeOK
  <2> QED BY <1>1, <2>1 DEF TypeOK
<1>3. PICK o \in FlushOrders(Expired(s)) :
        LET q == immediate[s] \o [i \in DOMAIN o |-> o[i].task] IN
        \/ /\ q = <<>>
           /\ Goto(w, "clear")
           /\ UNCHANGED <<immediate, task>>
        \/ /\ q # <<>>
           /\ immediate' = [immediate EXCEPT ![s] = Tail(q)]
           /\ task' = [task EXCEPT ![w] = Head(q)]
           /\ Goto(w, "callback")
  OBVIOUS
<1> DEFINE q == immediate[s] \o [i \in DOMAIN o |-> o[i].task]
<1>4. q \in Seq(TasksOf(s))
  BY <1>1, FlushedTasks
<1> HIDE DEF q
<1>5. CASE q = <<>> /\ Goto(w, "clear") /\ UNCHANGED <<immediate, task>>
  <2>1. TypeOK'
    BY <1>2, <1>5 DEF TypeOK, PCs, Handovers, DelayedTasks, TasksOf, Threads
  <2>2. Control'
    BY <1>1, <1>5 DEF TypeOK, PCs, Handovers, DelayedTasks, TasksOf, Threads, Control, WorkerControl, HandingOver, Holding, Popped, Nothing
  <2> QED BY <2>1, <2>2
<1>6. CASE /\ q # <<>>
           /\ immediate' = [immediate EXCEPT ![s] = Tail(q)]
           /\ task' = [task EXCEPT ![w] = Head(q)]
           /\ Goto(w, "callback")
  <2>1. Head(q) \in TasksOf(s) /\ Tail(q) \in Seq(TasksOf(s))
    BY <1>4, <1>6
  <2>2. TasksOf(s) \subseteq Tasks /\ Tail(q) \in Seq(Tasks)
    BY <2>1, SeqDef DEF TasksOf
  <2>3. TypeOK'
    <3>1. /\ immediate' \in [Seqs -> Seq(Tasks)]
          /\ \A r \in Seqs : immediate'[r] \in Seq(TasksOf(r))
      BY <1>1, <1>6, <2>1, <2>2 DEF TypeOK
    <3>2. task' \in [Workers -> Tasks \cup {NoTask}] /\ pc' \in [Threads -> PCs]
      BY <1>6, <2>1, <2>2 DEF TypeOK, PCs
    <3> QED BY <1>2, <3>1, <3>2 DEF TypeOK, PCs, Handovers, DelayedTasks, TasksOf, Threads
  <2>4. Control'
    <3>1. Head(q) \in Tasks /\ SequenceOf[Head(q)] = s
      BY <2>1 DEF TasksOf
    <3>2. ASSUME NEW v \in Workers PROVE WorkerControl(v)'
      BY <1>1, <1>6, <3>1 DEF TypeOK, Threads, Control, WorkerControl, HandingOver, Holding, Popped, Nothing
    <3>3. \A v \in Threads : v # w => pc'[v] = pc[v]
      BY <1>6 DEF TypeOK
    <3>4. pc'[w] = "callback"
      BY <1>6 DEF TypeOK, Threads
    <3> QED BY <3>2, <3>3, <3>4 DEF Control, TasksOf, Threads
  <2> QED BY <2>3, <2>4
<1> QED BY <1>3, <1>5, <1>6 DEF q

LEMMA CallbackTyped ==
    ASSUME Typed, NEW w \in Workers, Callback(w)
    PROVE  Typed'
<1> USE ConstantsAssumption DEF Typed, Goto, seqVars, dtmVars, Callback
<1>1. task[w] \in Tasks
  BY DEF TypeOK, Control, WorkerControl, HandingOver, Holding, Popped, Nothing
<1>3. TypeOK'
  BY <1>1 DEF TypeOK, PCs, Handovers, DelayedTasks, TasksOf, Threads
<1>4. Control'
  BY DEF TypeOK, PCs, Handovers, DelayedTasks, TasksOf, Threads, Control, WorkerControl, HandingOver, Holding, Popped, Nothing
<1> QED BY <1>3, <1>4

LEMMA PanicTyped ==
    ASSUME Typed, NEW w \in Workers, Panic(w)
    PROVE  Typed'
<1> USE ConstantsAssumption DEF Typed, Goto, seqVars, dtmVars, Panic
<1>1. TypeOK'
  BY DEF TypeOK, PCs, Handovers, DelayedTasks, TasksOf, Threads, Control, WorkerControl, HandingOver, Holding, Popped, Nothing
<1>2. Control'
  BY DEF TypeOK, PCs, Handovers, DelayedTasks, TasksOf, Threads, Control, WorkerControl, HandingOver, Holding, Popped, Nothing
<1> QED BY <1>1, <1>2

LEMMA ReleaseSequenceTyped ==
    ASSUME Typed, NEW w \in Workers, ReleaseSequence(w)
    PROVE  Typed'
<1> USE ConstantsAssumption DEF Typed, Goto, seqVars, dtmVars, ReleaseSequence
<1>1. TypeOK'
  BY DEF TypeOK, PCs, Handovers, DelayedTasks, TasksOf, Threads, Control, WorkerControl, HandingOver, Holding, Popped, Nothing
<1>2. Control'
  BY DEF TypeOK, PCs, Handovers, DelayedTasks, TasksOf, Threads, Control, WorkerControl, HandingOver, Holding, Popped, Nothing
<1> QED BY <1>1, <1>2

LEMMA SpuriousWakeTyped ==
    ASSUME Typed, NEW w \in Workers, SpuriousWake(w)
    PROVE  Typed'
<1> USE ConstantsAssumption DEF Typed, Goto, seqVars, dtmVars, SpuriousWake
<1>1. TypeOK'
  BY DEF TypeOK, PCs, Handovers, DelayedTasks, TasksOf, Threads, Control, WorkerControl, HandingOver, Holding, Popped, Nothing
<1>2. Control'
  BY DEF TypeOK, PCs, Handovers, DelayedTasks, TasksOf, Threads, Control, WorkerControl, HandingOver, Holding, Popped, Nothing
<1> QED BY <1>1, <1>2

LEMMA CheckMoreTyped ==
    ASSUME Typed, NEW w \in Workers, CheckMore(w)
    PROVE  Typed'
<1> USE ConstantsAssumption DEF Typed, Goto, seqVars, dtmVars, CheckMore
<1>1. src[w] \in Seqs
  BY DEF Control, WorkerControl, HandingOver, Holding, Popped, Nothing
<1>2. src' \in [Workers -> Seqs \cup {NoSeq}]
  BY DEF TypeOK
<1>3. CASE /\ out' = [out EXCEPT ![w] =
                     [seq |-> src[w], task |-> NoTask, ready |-> now]]
           /\ Goto(w, "push")
  <2>1. TypeOK'
    BY <1>1, <1>2, <1>3 DEF TypeOK, PCs, Handovers, DelayedTasks, TasksOf, Threads
  <2>2. Control'
    <3>1. /\ pc'[w] = "push" /\ out'[w] # Nothing /\ src'[w] = NoSeq /\ task[w] = NoTask
          /\ \A v \in Workers : v # w => src'[v] = src[v]
          /\ \A th \in Threads : th # w => pc'[th] = pc[th] /\ out'[th] = out[th]
      BY <1>1, <1>3 DEF TypeOK, Threads, Control, WorkerControl, HandingOver, Holding, Popped, Nothing
    <3> QED BY <3>1 DEF Threads, TasksOf, Control, WorkerControl, HandingOver, Holding, Popped, Nothing
  <2> QED BY <2>1, <2>2
<1>4. CASE Goto(w, "get_work") /\ UNCHANGED out
  <2>1. TypeOK'
    BY <1>1, <1>2, <1>4 DEF TypeOK, PCs, Handovers, DelayedTasks, TasksOf, Threads
  <2>2. Control'
    BY <1>1, <1>4 DEF TypeOK, PCs, Handovers, DelayedTasks, TasksOf, Threads, Control, WorkerControl, HandingOver, Holding, Popped, Nothing
  <2> QED BY <2>1, <2>2
<1> QED BY <1>3, <1>4

LEMMA TimerLoopTyped ==
    ASSUME Typed, TimerLoop
    PROVE  Typed'
<1> USE ConstantsAssumption DEF Typed, Goto, seqVars, dtmVars, TimerLoop, WaitUntil
<1>1. CASE Goto(Timer, "exited") /\ UNCHANGED <<heap, wakeAt, out>>
  <2>1. TypeOK'
    BY <1>1 DEF TypeOK, PCs, Handovers, DelayedTasks, TasksOf, Threads
  <2>2. Control'
    <3>1. /\ pc'[Timer] = "exited"
          /\ \A th \in Threads : th # Timer => pc'[th] = pc[th]
      BY <1>1 DEF TypeOK, Threads
    <3> QED BY <1>1, <3>1 DEF Threads, TasksOf, Control, WorkerControl, HandingOver, Holding, Popped, Nothing
  <2> QED BY <2>1, <2>2
<1>2. ASSUME NEW r \in Nat \cup {NoTimeout}, WaitUntil(r)
      PROVE  Typed'
  <2>1. TypeOK'
    BY <1>2 DEF TypeOK, PCs, Handovers, DelayedTasks, TasksOf, Threads
  <2>2. Control'
    <3>1. /\ pc'[Timer] = "timer_wait"
          /\ \A th \in Threads : th # Timer => pc'[th] = pc[th]
      BY <1>2 DEF TypeOK, Threads
    <3> QED BY <1>2, <3>1 DEF Threads, TasksOf, Control, WorkerControl, HandingOver, Holding, Popped, Nothing
  <2> QED BY <2>1, <2>2
<1>3. ASSUME NEW i \in DOMAIN heap, heap' = RemoveAt(heap, i),
             out' = [out EXCEPT ![Timer] =
                        [seq |-> heap[i].seq, task |-> NoTask,
                         ready |-> heap[i].ready]],
             Goto(Timer, "push"), UNCHANGED wakeAt
      PROVE  Typed'
  <2>1. heap' \in Seq([seq : Seqs, ready : Nat]) /\ heap[i] \in [seq : Seqs, ready : Nat]
    <3> DEFINE S == [seq : Seqs, ready : Nat]
    <3>1. heap \in Seq(S)
      BY DEF TypeOK
    <3> HIDE DEF S
    <3>2. heap' \in Seq(S) /\ heap[i] \in S
      BY <1>3, <3>1, RemoveAtElements
    <3> QED BY <3>2 DEF S
  <2>2. TypeOK'
    BY <1>3, <2>1 DEF TypeOK, PCs, Handovers, DelayedTasks, TasksOf, Threads
  <2>3. Control'
    BY <1>3, <2>1, ZenonT(30) DEF TypeOK, PCs, Handovers, DelayedTasks, TasksOf, Threads, Control, WorkerControl, HandingOver, Holding, Popped, Nothing
  <2> QED BY <2>2, <2>3
<1>4. ASSUME NEW i \in DOMAIN heap PROVE heap[i].ready \in Nat
  <2> DEFINE S == [seq : Seqs, ready : Nat]
  <2>1. heap \in Seq(S)
    BY DEF TypeOK
  <2>2. heap[i] \in S
    <3> HIDE DEF S
    <3> QED BY <2>1
  <2> QED BY <2>2
<1> QED BY <1>1, <1>2, <1>3, <1>4

LEMMA TimerWakesTyped ==
    ASSUME Typed, TimerWakes(TRUE)
    PROVE  Typed'
<1> USE ConstantsAssumption DEF Typed, Goto, seqVars, dtmVars, TimerWakes
<1>1. TypeOK'
  BY DEF TypeOK, PCs, Handovers, DelayedTasks, TasksOf, Threads
<1>2. Control'
  BY DEF TypeOK, PCs, Handovers, DelayedTasks, TasksOf, Threads, Control, WorkerControl, HandingOver, Holding, Popped, Nothing
<1> QED BY <1>1, <1>2

LEMMA NotifyAllTyped ==
    ASSUME Typed, NotifyAll
    PROVE  Typed'
<1> USE ConstantsAssumption DEF Typed, Goto, seqVars, dtmVars, NotifyAll, Waiting
<1>1. pc' \in [Threads -> PCs]
  BY DEF TypeOK, PCs
<1>2. TypeOK'
  BY <1>1 DEF TypeOK, PCs, Handovers, DelayedTasks, TasksOf, Threads
<1>3. Control'
  BY DEF TypeOK, PCs, Handovers, DelayedTasks, TasksOf, Threads, Control, WorkerControl, HandingOver, Holding, Popped, Nothing
<1> QED BY <1>2, <1>3

LEMMA JoinAllTyped ==
    ASSUME Typed, JoinAll
    PROVE  Typed'
<1> USE ConstantsAssumption DEF Typed, Goto, seqVars, dtmVars, JoinAll, OwnerStep
<1>1. TypeOK'
  BY DEF TypeOK, PCs, Handovers, DelayedTasks, TasksOf, Threads, Control, WorkerControl, HandingOver, Holding, Popped, Nothing
<1>2. Control'
  BY DEF TypeOK, PCs, Handovers, DelayedTasks, TasksOf, Threads, Control, WorkerControl, HandingOver, Holding, Popped, Nothing
<1> QED BY <1>1, <1>2

LEMMA JoinWorkersTyped ==
    ASSUME Typed, JoinWorkers
    PROVE  Typed'
<1> USE ConstantsAssumption DEF Typed, Goto, seqVars, dtmVars, JoinWorkers, OwnerStep
<1>1. TypeOK'
  BY DEF TypeOK, PCs, Handovers, DelayedTasks, TasksOf, Threads, Control, WorkerControl, HandingOver, Holding, Popped, Nothing
<1>2. Control'
  BY DEF TypeOK, PCs, Handovers, DelayedTasks, TasksOf, Threads, Control, WorkerControl, HandingOver, Holding, Popped, Nothing
<1> QED BY <1>1, <1>2

LEMMA StopTimerTyped ==
    ASSUME Typed, StopTimer
    PROVE  Typed'
<1> USE ConstantsAssumption DEF Typed, Goto, seqVars, dtmVars, StopTimer, OwnerStep
<1>1. TypeOK'
  BY DEF TypeOK, PCs, Handovers, DelayedTasks, TasksOf, Threads, Control, WorkerControl, HandingOver, Holding, Popped, Nothing
<1>2. Control'
  BY DEF TypeOK, PCs, Handovers, DelayedTasks, TasksOf, Threads, Control, WorkerControl, HandingOver, Holding, Popped, Nothing
<1> QED BY <1>1, <1>2

LEMMA NotifyStopTyped ==
    ASSUME Typed, NotifyStop
    PROVE  Typed'
<1> USE ConstantsAssumption DEF Typed, Goto, seqVars, dtmVars, NotifyStop, WakeTimer
<1>1. /\ pc' \in [Threads -> PCs] /\ pc'[Owner] = "join_timer"
      /\ pc'[Timer] \in {pc[Timer], "timer_loop"}
      /\ \A v \in Threads \ {Owner, Timer} : pc'[v] = pc[v]
  BY DEF TypeOK, PCs, Threads
<1>2. TypeOK'
  BY <1>1 DEF TypeOK, PCs, Handovers, DelayedTasks, TasksOf, Threads
<1>3. Control'
  BY <1>1 DEF Threads, TasksOf, Control, WorkerControl, HandingOver, Holding, Popped, Nothing
<1> QED BY <1>2, <1>3

LEMMA JoinTimerTyped ==
    ASSUME Typed, JoinTimer
    PROVE  Typed'
<1> USE ConstantsAssumption DEF Typed, Goto, seqVars, dtmVars, JoinTimer, OwnerStep
<1>1. TypeOK'
  BY DEF TypeOK, PCs, Handovers, DelayedTasks, TasksOf, Threads, Control, WorkerControl, HandingOver, Holding, Popped, Nothing
<1>2. Control'
  BY DEF TypeOK, PCs, Handovers, DelayedTasks, TasksOf, Threads, Control, WorkerControl, HandingOver, Holding, Popped, Nothing
<1> QED BY <1>1, <1>2

LEMMA TickTyped ==
    ASSUME Typed, Tick
    PROVE  Typed'
<1>1. TypeOK'
  <2>1. now' \in Nat
    BY DEF Typed, Tick, TypeOK
  <2> QED BY <2>1 DEF Typed, Tick, seqVars, dtmVars, TypeOK, DelayedTasks, TasksOf
<1>2. Control'
  BY DEF Typed, Tick, Control, WorkerControl, TasksOf
<1> QED BY <1>1, <1>2 DEF Typed

\* Every step preserves the types and the control invariant.
LEMMA NextTyped == Typed /\ [Next]_vars => Typed'
<1> SUFFICES ASSUME Typed, [Next]_vars PROVE Typed'
  OBVIOUS
<1>1. ASSUME NEW c \in Clients, NEW t \in Tasks, Post(c, t) PROVE Typed'
  BY <1>1, PostTyped
<1>2. ASSUME NEW th \in Threads, HandOver(th) PROVE Typed'
  BY <1>2, PushDelayedTaskTyped, AddSequenceTyped, NotifyTimerTyped, PushTaskSourceTyped,
     NotifyOneTyped DEF HandOver
<1>3. ASSUME NEW w \in Workers, WorkerStep(w) PROVE Typed'
  BY <1>3, GetWorkTyped, WillRunTaskTyped, TakeTaskTyped, CallbackTyped, PostReplyTyped,
     ReleaseSequenceTyped, CheckMoreTyped DEF WorkerStep, DidProcessTask
<1>4. ASSUME NEW w \in Workers, Panic(w) \/ SpuriousWake(w) PROVE Typed'
  BY <1>4, PanicTyped, SpuriousWakeTyped
<1>5. ASSUME TimerLoop \/ TimerTimeout \/ TimerSpuriousWake PROVE Typed'
  BY <1>5, TimerLoopTyped, TimerWakesTyped DEF TimerTimeout, TimerSpuriousWake, TimerWakes
<1>6. ASSUME Shutdown PROVE Typed'
  BY <1>6, JoinAllTyped, NotifyAllTyped, JoinWorkersTyped, StopTimerTyped, NotifyStopTyped,
     JoinTimerTyped DEF Shutdown
<1>7. ASSUME Tick PROVE Typed'
  BY <1>7, TickTyped
<1>8. ASSUME UNCHANGED vars PROVE Typed'
  <2>1. TypeOK'
    BY <1>8 DEF vars, Typed, TypeOK, DelayedTasks, TasksOf
  <2>2. Control'
    BY <1>8 DEF vars, Typed, Control, WorkerControl, TasksOf
  <2> QED BY <2>1, <2>2 DEF Typed
<1> QED BY <1>1, <1>2, <1>3, <1>4, <1>5, <1>6, <1>7, <1>8 DEF Next, Stopped

\* TypeOK is an invariant: whatever threads, tasks and sequences there are, every
\* variable keeps its type and a sequence holds only its own tasks.
THEOREM TypeCorrect == Spec => []TypeOK
<1>1. Typed => TypeOK
  BY DEF Typed
<1> QED BY <1>1, InitTyped, NextTyped, PTL DEF Spec

-----------------------------------------------------------------------------
(* Mutual exclusion *)

\* The inductive invariant: has_worker records ownership, and a sequence has at
\* most one owner.  MutualExclusion alone is not inductive: a worker that is
\* about to claim a sequence relies on has_worker, not on the other workers.
OneOwner == \A v, w \in Workers, s \in Seqs : Owns(v, s) /\ Owns(w, s) => v = w

Exclusive == HasWorkerExact /\ OneOwner

Undecided == {"will_run", "check"}

\* Steps that neither take nor give up a source.
SameOwners ==
    /\ hasWorker' = hasWorker /\ src' = src
    /\ \A w \in Workers : pc'[w] \in Undecided <=> pc[w] \in Undecided

LEMMA SameOwnersExclusive == Exclusive /\ SameOwners => Exclusive'
BY DEF Exclusive, HasWorkerExact, OneOwner, Owns, SameOwners, Undecided

LEMMA InitExclusive == Init => Exclusive
<1> SUFFICES ASSUME Init PROVE Exclusive
  OBVIOUS
<1>1. \A w \in Workers, s \in Seqs : ~Owns(w, s)
  BY ConstantsAssumption DEF Init, SequencesInit, GroupInit, TimerInit, Owns
<1>2. \A s \in Seqs : hasWorker[s] = FALSE
  BY DEF Init, SequencesInit, GroupInit, TimerInit
<1> QED BY <1>1, <1>2 DEF Exclusive, HasWorkerExact, OneOwner

LEMMA NextSameOwners ==
    ASSUME Typed, [Next]_vars
    PROVE  \/ SameOwners
           \/ \E w \in Workers : GetWork(w) \/ WillRunTask(w) \/ ReleaseSequence(w)
                                 \/ CheckMore(w)
<1> USE ConstantsAssumption DEF Typed, TypeOK, Goto, seqVars, dtmVars, SameOwners,
        Undecided, Threads
<1>1. ASSUME NEW c \in Clients, NEW t \in Tasks, Post(c, t) PROVE SameOwners
  BY <1>1 DEF Post, PostTask, PushTask, ReadClock
<1>2. ASSUME NEW th \in Threads, HandOver(th) PROVE SameOwners
  <2>1. CASE PushDelayedTask(th) \/ AddSequence(th) \/ PushTaskSource(th)
    BY <2>1 DEF PushDelayedTask, AddSequence, PushTaskSource
  <2>2. Return(th) \notin Undecided
    BY DEF Return
  <2>3. CASE NotifyTimer(th)
    BY <2>2, <2>3 DEF NotifyTimer, WakeTimer
  <2>4. CASE NotifyOne(th)
    BY <2>2, <2>4 DEF NotifyOne, Waiting
  <2> QED BY <1>2, <2>1, <2>3, <2>4 DEF HandOver
<1>3. ASSUME NEW w \in Workers, TakeTask(w) PROVE SameOwners
  BY <1>3 DEF TakeTask
<1>4. ASSUME NEW w \in Workers, Callback(w) \/ Panic(w) \/ SpuriousWake(w)
      PROVE  SameOwners
  BY <1>4 DEF Callback, Panic, SpuriousWake
<1>5. ASSUME NEW w \in Workers, PostReply(w) PROVE SameOwners
  BY <1>5 DEF PostReply, PostTask, PushTask, ReadClock
<1>6. ASSUME TimerLoop PROVE SameOwners
  BY <1>6 DEF TimerLoop, WaitUntil
<1>7. ASSUME TimerTimeout \/ TimerSpuriousWake PROVE SameOwners
  BY <1>7 DEF TimerTimeout, TimerSpuriousWake, TimerWakes
<1>8. ASSUME Shutdown PROVE SameOwners
  <2>1. CASE JoinAll \/ JoinWorkers \/ StopTimer \/ JoinTimer
    BY <2>1 DEF JoinAll, JoinWorkers, StopTimer, JoinTimer, OwnerStep
  <2>2. CASE NotifyAll
    BY <2>2 DEF NotifyAll, Waiting
  <2>3. CASE NotifyStop
    BY <2>3 DEF NotifyStop, WakeTimer
  <2> QED BY <1>8, <2>1, <2>2, <2>3 DEF Shutdown
<1>9. ASSUME Tick \/ UNCHANGED vars PROVE SameOwners
  BY <1>9 DEF Tick, vars
<1> QED BY <1>1, <1>2, <1>3, <1>4, <1>5, <1>6, <1>7, <1>8, <1>9
        DEF Next, WorkerStep, DidProcessTask, Stopped

LEMMA NextExclusive == Typed /\ Exclusive /\ [Next]_vars => Exclusive'
<1> SUFFICES ASSUME Typed, Exclusive, [Next]_vars PROVE Exclusive'
  OBVIOUS
<1> USE ConstantsAssumption DEF Typed, TypeOK, Goto, Threads
<1>1. ASSUME NEW w \in Workers, GetWork(w) PROVE Exclusive'
  <2>1. pc[w] = "get_work" /\ src[w] = NoSeq /\ hasWorker' = hasWorker
    BY <1>1 DEF GetWork, Control, WorkerControl
  <2>2. src'[w] = NoSeq \/ pc'[w] = "will_run"
    BY <1>1, <2>1 DEF GetWork
  <2>3. \A v \in Workers : v # w => src'[v] = src[v] /\ pc'[v] = pc[v]
    BY <1>1 DEF GetWork
  <2>4. \A v \in Workers, s \in Seqs : Owns(v, s)' <=> Owns(v, s)
    BY <2>1, <2>2, <2>3 DEF Owns
  <2> QED BY <2>1, <2>4 DEF Exclusive, HasWorkerExact, OneOwner
<1>2. ASSUME NEW w \in Workers, WillRunTask(w) PROVE Exclusive'
  <2>0. PICK s \in Seqs : s = src[w]
    BY <1>2 DEF WillRunTask, Control, WorkerControl, Popped
  <2>1. src[w] = s /\ ~Owns(w, s)
    BY <1>2, <2>0 DEF WillRunTask, Control, WorkerControl, Popped, Owns
  <2>2. \A v \in Workers : v # w => src'[v] = src[v] /\ pc'[v] = pc[v]
    BY <1>2 DEF WillRunTask
  <2>3. hasWorker' = [hasWorker EXCEPT ![s] = TRUE]
    BY <1>2, <2>0 DEF WillRunTask
  <2>4. CASE hasWorker[s]
    <3>1. src'[w] = NoSeq
      BY <1>2, <2>1, <2>4 DEF WillRunTask
    <3>2. \A v \in Workers, r \in Seqs : Owns(v, r)' <=> Owns(v, r)
      BY <2>1, <2>2, <3>1, <1>2 DEF Owns, WillRunTask
    <3>3. hasWorker' = hasWorker
      BY <2>1, <2>3, <2>4
    <3> QED BY <3>2, <3>3 DEF Exclusive, HasWorkerExact, OneOwner
  <2>5. CASE ~hasWorker[s]
    <3>1. src'[w] = s /\ pc'[w] = "take_task"
      BY <1>2, <2>1, <2>5 DEF WillRunTask
    <3>2. Owns(w, s)' /\ \A v \in Workers : ~Owns(v, s)
      BY <2>1, <2>5, <3>1 DEF Exclusive, HasWorkerExact, Owns
    <3>3. \A v \in Workers, r \in Seqs : r # s => (Owns(v, r)' <=> Owns(v, r))
      BY <2>1, <2>2, <3>1 DEF Owns
    <3>4. \A v \in Workers : Owns(v, s)' <=> v = w
      BY <2>2, <3>2 DEF Owns
    <3>5. ASSUME NEW u \in Workers, NEW v \in Workers, NEW r \in Seqs,
                 Owns(u, r)', Owns(v, r)'
          PROVE  u = v
      <4>1. CASE r = s
        BY <3>4, <3>5, <4>1
      <4>2. CASE r # s
        BY <3>3, <3>5, <4>2 DEF Exclusive, OneOwner
      <4> QED BY <4>1, <4>2
    <3>6. \A r \in Seqs : hasWorker'[r] <=> r = s \/ hasWorker[r]
      BY <2>1, <2>3
    <3>7. HasWorkerExact'
      BY <3>3, <3>4, <3>6 DEF Exclusive, HasWorkerExact
    <3> QED BY <3>5, <3>7 DEF Exclusive, OneOwner
  <2> QED BY <2>4, <2>5
<1>3. ASSUME NEW w \in Workers, ReleaseSequence(w) PROVE Exclusive'
  <2>0. PICK s \in Seqs : s = src[w]
    BY <1>3 DEF ReleaseSequence, Control, WorkerControl
  <2>1. src[w] = s /\ Owns(w, s) /\ src' = src
    BY <1>3, <2>0 DEF ReleaseSequence, Control, WorkerControl, Owns
  <2>2. pc'[w] = "check" /\ \A v \in Workers : v # w => pc'[v] = pc[v]
    BY <1>3 DEF ReleaseSequence
  <2>3. \A r \in Seqs : hasWorker'[r] <=> r # s /\ hasWorker[r]
    BY <1>3, <2>1 DEF ReleaseSequence
  <2>4. \A v \in Workers, r \in Seqs : Owns(v, r)' <=> v # w /\ Owns(v, r)
    BY <2>1, <2>2 DEF Owns
  <2>5. \A v \in Workers : ~Owns(v, s)'
    BY <2>1, <2>4 DEF Exclusive, OneOwner
  <2>6. \A r \in Seqs : r # s => ~Owns(w, r)
    BY <2>1 DEF Owns
  <2>7. OneOwner'
    BY <2>4 DEF Exclusive, OneOwner
  <2>8. HasWorkerExact'
    <3> SUFFICES ASSUME NEW r \in Seqs
                 PROVE  hasWorker'[r] <=> \E v \in Workers : Owns(v, r)'
      BY DEF HasWorkerExact
    <3>1. CASE r = s
      BY <2>3, <2>5, <3>1
    <3>2. CASE r # s
      BY <2>3, <2>4, <2>6, <3>2 DEF Exclusive, HasWorkerExact
    <3> QED BY <3>1, <3>2
  <2> QED BY <2>7, <2>8 DEF Exclusive
<1>4. ASSUME NEW w \in Workers, CheckMore(w) PROVE Exclusive'
  <2>1. pc[w] = "check" /\ src'[w] = NoSeq /\ hasWorker' = hasWorker
    BY <1>4 DEF CheckMore
  <2>2. \A v \in Workers : v # w => src'[v] = src[v] /\ pc'[v] = pc[v]
    BY <1>4 DEF CheckMore
  <2>3. \A v \in Workers, s \in Seqs : Owns(v, s)' <=> Owns(v, s)
    BY <2>1, <2>2 DEF Owns
  <2> QED BY <2>1, <2>3 DEF Exclusive, HasWorkerExact, OneOwner
<1> QED BY <1>1, <1>2, <1>3, <1>4, NextSameOwners, SameOwnersExclusive

LEMMA ExclusiveAlone == Typed /\ Exclusive => MutualExclusion
<1> SUFFICES ASSUME Typed, Exclusive, NEW v \in Workers, NEW w \in Workers,
                    task[v] # NoTask, task[w] # NoTask,
                    SequenceOf[task[v]] = SequenceOf[task[w]]
             PROVE  v = w
  BY DEF MutualExclusion
<1> DEFINE s == SequenceOf[task[v]]
<1>1. s \in Seqs
  BY ConstantsAssumption DEF Typed, TypeOK
<1>2. Owns(v, s) /\ Owns(w, s)
  BY DEF Typed, Control, WorkerControl, Popped, Owns
<1> QED BY <1>1, <1>2 DEF Exclusive, OneOwner

\* No two workers ever hold tasks of the same sequence.
THEOREM MutualExclusionHolds == Spec => []MutualExclusion
<1> QED BY InitTyped, NextTyped, InitExclusive, NextExclusive, ExclusiveAlone,
           PTL DEF Spec

\* has_worker is set exactly while a worker owns the sequence.
THEOREM HasWorkerExactHolds == Spec => []HasWorkerExact
<1>1. Exclusive => HasWorkerExact
  BY DEF Exclusive
<1> QED BY <1>1, InitTyped, NextTyped, InitExclusive, NextExclusive, PTL DEF Spec

-----------------------------------------------------------------------------
(* No task is stranded *)

\* Steps after which every sequence is looked after at least as well as before.
StillServed ==
    /\ immediate' = immediate /\ delayed' = delayed /\ now' = now
    /\ \A s \in Seqs : Responsible(s) => Responsible(s)'
    /\ \A s \in Seqs, r \in Nat :
          TimerResponsible(s, r) => \/ TimerResponsible(s, r)'
                                    \/ (r <= now /\ Responsible(s)')

LEMMA StillServedNoLost ==
    ASSUME TypeOK, NoLostTask, StillServed
    PROVE  NoLostTask'
<1> SUFFICES ASSUME NEW s \in Seqs
             PROVE  /\ immediate'[s] # <<>> => Responsible(s)'
                    /\ \A d \in delayed'[s] : \/ TimerResponsible(s, d.ready)'
                                              \/ d.ready <= now' /\ Responsible(s)'
  BY DEF NoLostTask
<1>1. immediate'[s] # <<>> => Responsible(s)'
  BY DEF NoLostTask, StillServed
<1>2. ASSUME NEW d \in delayed[s]
      PROVE  TimerResponsible(s, d.ready)' \/ (d.ready <= now /\ Responsible(s)')
  <2>1. d \in DelayedTasks(s)
    BY DEF TypeOK
  <2>2. PICK r \in Nat : r = d.ready
    BY <2>1 DEF DelayedTasks
  <2>3. TimerResponsible(s, r) \/ (r <= now /\ Responsible(s))
    <3>1. TimerResponsible(s, d.ready) \/ (d.ready <= now /\ Responsible(s))
      BY DEF NoLostTask
    <3> QED BY <2>2, <3>1 DEF TimerResponsible
  <2>4. TimerResponsible(s, r)' \/ (r <= now /\ Responsible(s)')
    BY <2>3 DEF StillServed
  <2> QED BY <2>2, <2>4 DEF TimerResponsible
<1> QED BY <1>1, <1>2 DEF StillServed

\* Steps that only move threads between points other than "push" and "add".
Elsewhere ==
    /\ UNCHANGED <<immediate, delayed, queue, heap, src, out, now>>
    /\ \A th \in Threads : pc[th] \in {"push", "add"} => pc'[th] = pc[th]

LEMMA ElsewhereStillServed == Elsewhere => StillServed
BY DEF Elsewhere, StillServed, Responsible, TimerResponsible

LEMMA InitNoLost == Init => NoLostTask
BY DEF Init, SequencesInit, GroupInit, TimerInit, NoLostTask

LEMMA PushTaskNoLost ==
    ASSUME Typed, NoLostTask, NEW th \in Threads, NEW t \in Tasks, PushTask(th, t),
           pc[th] \notin {"push", "add"}
    PROVE  NoLostTask'
<1> USE DEF Typed, TypeOK, Goto
<1>0. PICK q \in Seqs : q = SequenceOf[t]
  BY ConstantsAssumption
<1>1. /\ pc' = [pc EXCEPT ![th] = "push"]
      /\ out'[th].seq = q
      /\ \A v \in Threads : v # th => out'[v] = out[v]
      /\ \A s \in Seqs : s # q => immediate'[s] = immediate[s]
      /\ UNCHANGED <<delayed, queue, heap, src, now>>
  BY <1>0 DEF PushTask, dtmVars
<1>2. Responsible(q)'
  BY <1>1 DEF Responsible
<1>3. \A s \in Seqs : Responsible(s) => Responsible(s)'
  BY <1>1 DEF Responsible
<1>4. \A s \in Seqs : \A r : TimerResponsible(s, r) => TimerResponsible(s, r)'
  BY <1>1 DEF TimerResponsible
<1>5. ASSUME NEW s \in Seqs, immediate'[s] # <<>> PROVE Responsible(s)'
  BY <1>1, <1>2, <1>3, <1>5 DEF NoLostTask
<1>6. ASSUME NEW s \in Seqs, NEW d \in delayed[s]
      PROVE  \/ TimerResponsible(s, d.ready)'
             \/ (d.ready <= now /\ Responsible(s)')
  <2>1. PICK r : r = d.ready
    OBVIOUS
  <2>2. TimerResponsible(s, r)' \/ (d.ready <= now /\ Responsible(s)')
    <3>1. TimerResponsible(s, d.ready) \/ (d.ready <= now /\ Responsible(s))
      BY DEF NoLostTask
    <3>2. TimerResponsible(s, r) \/ (d.ready <= now /\ Responsible(s))
      BY <2>1, <3>1 DEF TimerResponsible
    <3>3. TimerResponsible(s, r) => TimerResponsible(s, r)'
      BY <1>4
    <3> QED BY <1>3, <3>2, <3>3
  <2> QED BY <2>1, <2>2 DEF TimerResponsible
<1> QED BY <1>1, <1>5, <1>6 DEF NoLostTask

LEMMA PushDelayedTaskNoLost ==
    ASSUME Typed, NoLostTask, NEW th \in Threads, PushDelayedTask(th)
    PROVE  NoLostTask'
<1> USE DEF Typed, TypeOK, Goto
<1>0. PICK q \in Seqs, r \in Nat : q = out[th].seq /\ r = out[th].ready
  BY DEF PushDelayedTask, Control, Handovers
<1>1. /\ pc[th] = "insert" /\ pc' = [pc EXCEPT ![th] = "add"]
      /\ out' = out /\ out[th].seq = q /\ out[th].ready = r
      /\ \A s \in Seqs : \A d \in delayed'[s] :
            d \in delayed[s] \/ (s = q /\ d.ready = r)
      /\ UNCHANGED <<immediate, queue, heap, src, now>>
  <2> DEFINE e == [task |-> out[th].task, ready |-> out[th].ready, num |-> nextNum[q]]
  <2>1. delayed' = [delayed EXCEPT ![q] = @ \cup {e}] /\ e.ready = r
    BY <1>0 DEF PushDelayedTask
  <2>2. ASSUME NEW s \in Seqs, NEW d \in delayed'[s]
        PROVE  d \in delayed[s] \/ (s = q /\ d.ready = r)
    BY <2>1, <2>2
  <2> QED BY <1>0, <2>2 DEF PushDelayedTask, dtmVars
<1>2. TimerResponsible(q, r)'
  BY <1>1 DEF TimerResponsible
<1>3. \A s \in Seqs : Responsible(s) => Responsible(s)'
  BY <1>1 DEF Responsible
<1>4. \A s \in Seqs : \A x : TimerResponsible(s, x) => TimerResponsible(s, x)'
  BY <1>1 DEF TimerResponsible
<1>5. ASSUME NEW s \in Seqs, immediate'[s] # <<>> PROVE Responsible(s)'
  BY <1>1, <1>3, <1>5 DEF NoLostTask
<1>6. ASSUME NEW s \in Seqs, NEW d \in delayed'[s]
      PROVE  TimerResponsible(s, d.ready)' \/ (d.ready <= now' /\ Responsible(s)')
  <2>1. PICK x : x = d.ready
    OBVIOUS
  <2>2. CASE s = q /\ x = r
    BY <1>2, <2>1, <2>2 DEF TimerResponsible
  <2>3. CASE d \in delayed[s]
    <3>1. TimerResponsible(s, d.ready) \/ (d.ready <= now /\ Responsible(s))
      BY <2>3 DEF NoLostTask
    <3>2. TimerResponsible(s, x) \/ (d.ready <= now /\ Responsible(s))
      BY <2>1, <3>1 DEF TimerResponsible
    <3>3. TimerResponsible(s, x) => TimerResponsible(s, x)'
      BY <1>4
    <3>4. TimerResponsible(s, x)' \/ (d.ready <= now /\ Responsible(s)')
      BY <1>3, <3>2, <3>3
    <3> QED BY <1>1, <2>1, <3>4 DEF TimerResponsible
  <2> QED BY <1>1, <2>1, <2>2, <2>3
<1> QED BY <1>5, <1>6 DEF NoLostTask

LEMMA AddSequenceServed ==
    ASSUME Typed, NEW th \in Threads, AddSequence(th)
    PROVE  StillServed
<1> USE DEF Typed, TypeOK, Goto
<1>1. /\ pc[th] = "add" /\ pc' = [pc EXCEPT ![th] = "notify_timer"]
      /\ \A v \in Threads : v # th => out'[v] = out[v]
      /\ heap' = Append(heap, [seq |-> out[th].seq, ready |-> out[th].ready])
      /\ UNCHANGED <<immediate, delayed, queue, src, now>>
  BY DEF AddSequence, seqVars
<1>2. \A s \in Seqs : Responsible(s) => Responsible(s)'
  BY <1>1 DEF Responsible
<1>3. /\ Len(heap) \in Nat /\ DOMAIN heap = 1 .. Len(heap)
      /\ DOMAIN heap' = 1 .. Len(heap) + 1
      /\ \A i \in DOMAIN heap : heap'[i] = heap[i]
      /\ heap'[Len(heap) + 1] = [seq |-> out[th].seq, ready |-> out[th].ready]
  <2> DEFINE S == [seq : Seqs, ready : Nat]
  <2>1. heap \in Seq(S) /\ [seq |-> out[th].seq, ready |-> out[th].ready] \in S
    BY <1>1 DEF Control, Handovers
  <2> HIDE DEF S
  <2> QED BY <1>1, <2>1, AppendProperties, SMTT(30)
<1>4. ASSUME NEW s \in Seqs, NEW r \in Nat, TimerResponsible(s, r)
      PROVE  TimerResponsible(s, r)'
  <2>1. CASE \E i \in DOMAIN heap : heap[i].seq = s /\ heap[i].ready = r
    BY <1>3, <2>1, SMTT(30) DEF TimerResponsible
  <2>2. ASSUME NEW v \in Threads, pc[v] = "add", out[v].seq = s, out[v].ready = r
        PROVE  TimerResponsible(s, r)'
    <3>1. CASE v = th
      <4>1. /\ Len(heap) + 1 \in DOMAIN heap'
            /\ heap'[Len(heap) + 1].seq = s /\ heap'[Len(heap) + 1].ready = r
        BY <1>3, <2>2, <3>1
      <4> QED BY <4>1 DEF TimerResponsible
    <3>2. CASE v # th
      BY <1>1, <2>2, <3>2 DEF TimerResponsible
    <3> QED BY <3>1, <3>2
  <2> QED BY <1>4, <2>1, <2>2 DEF TimerResponsible
<1> QED BY <1>1, <1>2, <1>4 DEF StillServed

LEMMA PushTaskSourceServed ==
    ASSUME Typed, NEW th \in Threads, PushTaskSource(th)
    PROVE  StillServed
<1> USE DEF Typed, TypeOK, Goto
<1>1. /\ pc[th] = "push" /\ pc' = [pc EXCEPT ![th] = "notify"]
      /\ \A v \in Threads : v # th => out'[v] = out[v]
      /\ queue' = Append(queue, out[th].seq)
      /\ UNCHANGED <<immediate, delayed, heap, src, now>>
  BY DEF PushTaskSource, seqVars, dtmVars
<1>2. out[th].seq \in Seqs
  BY <1>1 DEF Control, Handovers
<1>3. /\ Len(queue) \in Nat /\ DOMAIN queue = 1 .. Len(queue)
      /\ DOMAIN queue' = 1 .. Len(queue) + 1
      /\ \A i \in DOMAIN queue : queue'[i] = queue[i]
      /\ queue'[Len(queue) + 1] = out[th].seq
  BY <1>1, <1>2, AppendProperties
<1>4. ASSUME NEW s \in Seqs, Responsible(s) PROVE Responsible(s)'
  <2>1. CASE \E i \in DOMAIN queue : queue[i] = s
    BY <1>3, <2>1 DEF Responsible
  <2>2. CASE out[th].seq = s
    <3>1. Len(queue) + 1 \in DOMAIN queue' /\ queue'[Len(queue) + 1] = s
      BY <1>3, <2>2
    <3> QED BY <3>1 DEF Responsible
  <2>3. CASE \E v \in Threads : v # th /\ pc[v] = "push" /\ out[v].seq = s
    BY <1>1, <2>3 DEF Responsible
  <2>4. CASE \E w \in Workers : src[w] = s
    BY <1>1, <2>4 DEF Responsible
  <2> QED BY <1>4, <2>1, <2>2, <2>3, <2>4 DEF Responsible
<1>5. \A s \in Seqs, r \in Nat : TimerResponsible(s, r) => TimerResponsible(s, r)'
  BY <1>1 DEF TimerResponsible
<1> QED BY <1>1, <1>4, <1>5 DEF StillServed

LEMMA GetWorkServed ==
    ASSUME Typed, NEW w \in Workers, GetWork(w)
    PROVE  StillServed
<1> USE DEF Typed, TypeOK, Goto
<1>0. /\ pc[w] = "get_work" /\ src[w] = NoSeq
      /\ UNCHANGED <<immediate, delayed, heap, out, now>>
      /\ \A th \in Threads : th # w => pc'[th] = pc[th]
  BY DEF GetWork, Control, WorkerControl, seqVars, dtmVars
<1>1. CASE UNCHANGED <<queue, src>>
  BY <1>0, <1>1 DEF StillServed, Responsible, TimerResponsible
<1>2. ASSUME NEW i \in DOMAIN queue, queue' = RemoveAt(queue, i),
             src' = [src EXCEPT ![w] = queue[i]]
      PROVE  StillServed
  <2>1. src'[w] = queue[i] /\ \A v \in Workers : v # w => src'[v] = src[v]
    BY <1>2
  <2>2. \A j \in DOMAIN queue : j # i =>
           \E k \in DOMAIN queue' : queue'[k] = queue[j]
    BY <1>2, RemoveAtElements
  <2>3. ASSUME NEW s \in Seqs, Responsible(s) PROVE Responsible(s)'
    <3>1. CASE \E j \in DOMAIN queue : queue[j] = s
      BY <2>1, <2>2, <3>1 DEF Responsible
    <3>2. CASE \E th \in Threads : pc[th] = "push" /\ out[th].seq = s
      BY <1>0, <3>2 DEF Responsible
    <3>3. CASE \E v \in Workers : src[v] = s
      <4>1. NoSeq # s
        BY ConstantsAssumption
      <4> QED BY <1>0, <2>1, <3>3, <4>1 DEF Responsible
    <3> QED BY <2>3, <3>1, <3>2, <3>3 DEF Responsible
  <2>4. \A s \in Seqs, r \in Nat : TimerResponsible(s, r) => TimerResponsible(s, r)'
    BY <1>0 DEF TimerResponsible
  <2> QED BY <1>0, <2>3, <2>4 DEF StillServed
<1> QED BY <1>1, <1>2 DEF GetWork

\* A Disallowed worker may drop its entry: has_worker is exact, so the owner is
\* still there to look again.
LEMMA WillRunTaskServed ==
    ASSUME Typed, Exclusive, NEW w \in Workers, WillRunTask(w)
    PROVE  StillServed
<1> USE DEF Typed, TypeOK, Goto
<1>0. /\ pc[w] = "will_run"
      /\ UNCHANGED <<immediate, delayed, queue, heap, out, now>>
      /\ \A th \in Threads : th # w => pc'[th] = pc[th]
      /\ pc'[w] \in {"get_work", "take_task"}
  BY DEF WillRunTask, seqVars, dtmVars, Threads
<1>1. CASE src' = src
  BY <1>0, <1>1 DEF StillServed, Responsible, TimerResponsible
<1>2. CASE hasWorker[src[w]] /\ src' = [src EXCEPT ![w] = NoSeq]
  <2>1. src[w] \in Seqs
    BY <1>0 DEF Control, WorkerControl, Popped
  <2>2. PICK v \in Workers : Owns(v, src[w])
    BY <1>2, <2>1 DEF Exclusive, HasWorkerExact
  <2>3. v # w /\ src'[v] = src[w]
    BY <1>0, <1>2, <2>2 DEF Owns
  <2>4. \A u \in Workers : u # w => src'[u] = src[u]
    BY <1>2
  <2>5. \A s \in Seqs : Responsible(s) => Responsible(s)'
    BY <1>0, <2>3, <2>4 DEF Responsible
  <2>6. \A s \in Seqs, r \in Nat : TimerResponsible(s, r) => TimerResponsible(s, r)'
    BY <1>0 DEF TimerResponsible
  <2> QED BY <1>0, <2>5, <2>6 DEF StillServed
<1> QED BY <1>1, <1>2 DEF WillRunTask

LEMMA TakeTaskNoLost ==
    ASSUME Typed, NoLostTask, NEW w \in Workers, TakeTask(w)
    PROVE  NoLostTask'
<1> USE DEF Typed, TypeOK, Goto
<1>0. PICK q \in Seqs : q = src[w]
  BY DEF TakeTask, Control, WorkerControl, Popped
<1>1. /\ pc[w] = "take_task" /\ pc'[w] \in {"clear", "callback"}
      /\ \A th \in Threads : th # w => pc'[th] = pc[th]
      /\ UNCHANGED <<queue, heap, src, out, now>>
      /\ \A s \in Seqs : delayed'[s] \subseteq delayed[s]
      /\ \A s \in Seqs : s # q => immediate'[s] = immediate[s]
  BY <1>0 DEF TakeTask, dtmVars, Threads
<1>2. \A s \in Seqs : Responsible(s) => Responsible(s)'
  BY <1>1 DEF Responsible
<1>3. \A s \in Seqs : \A r : TimerResponsible(s, r) => TimerResponsible(s, r)'
  BY <1>1 DEF TimerResponsible
<1>4. Responsible(q)'
  BY <1>0, <1>1 DEF Responsible
<1>5. ASSUME NEW s \in Seqs, immediate'[s] # <<>> PROVE Responsible(s)'
  BY <1>1, <1>2, <1>4, <1>5 DEF NoLostTask
<1>6. ASSUME NEW s \in Seqs, NEW d \in delayed'[s]
      PROVE  TimerResponsible(s, d.ready)' \/ (d.ready <= now' /\ Responsible(s)')
  <2>1. PICK r : r = d.ready
    OBVIOUS
  <2>2. TimerResponsible(s, d.ready) \/ (d.ready <= now /\ Responsible(s))
    BY <1>1 DEF NoLostTask
  <2>3. TimerResponsible(s, r) \/ (d.ready <= now /\ Responsible(s))
    BY <2>1, <2>2 DEF TimerResponsible
  <2>4. TimerResponsible(s, r) => TimerResponsible(s, r)'
    BY <1>3
  <2>5. TimerResponsible(s, r)' \/ (d.ready <= now /\ Responsible(s)')
    BY <1>2, <2>3, <2>4
  <2> QED BY <1>1, <2>1, <2>5 DEF TimerResponsible
<1> QED BY <1>5, <1>6 DEF NoLostTask

\* did_process_task may drop the sequence: under its lock it saw no ready task.
LEMMA CheckMoreNoLost ==
    ASSUME Typed, NoLostTask, NEW w \in Workers, CheckMore(w)
    PROVE  NoLostTask'
<1> USE DEF Typed, TypeOK, Goto
<1>0. PICK q \in Seqs : q = src[w]
  BY DEF CheckMore, Control, WorkerControl, Popped
<1>1. /\ pc[w] = "check" /\ pc'[w] \in {"get_work", "push"}
      /\ src' = [src EXCEPT ![w] = NoSeq]
      /\ \A th \in Threads : th # w => pc'[th] = pc[th] /\ out'[th] = out[th]
      /\ UNCHANGED <<immediate, delayed, queue, heap, now>>
  BY DEF CheckMore, seqVars, dtmVars, Threads
<1>2. \A s \in Seqs : s # q /\ Responsible(s) => Responsible(s)'
  BY <1>0, <1>1 DEF Responsible
<1>3. \A s \in Seqs : \A r : TimerResponsible(s, r) => TimerResponsible(s, r)'
  BY <1>1 DEF TimerResponsible
<1>4. CASE HasReadyTasks(q)
  <2>1. pc'[w] = "push" /\ out'[w].seq = q
    BY <1>0, <1>4 DEF CheckMore, Threads
  <2>2. Responsible(q)'
    BY <2>1 DEF Responsible, Threads
  <2>3. \A s \in Seqs : Responsible(s) => Responsible(s)'
    BY <1>2, <2>2
  <2>4. StillServed
    BY <1>1, <1>3, <2>3 DEF StillServed
  <2> QED BY <2>4, StillServedNoLost
<1>5. CASE ~HasReadyTasks(q)
  <2>1. immediate[q] = <<>> /\ \A d \in delayed[q] : ~(d.ready <= now)
    BY <1>5 DEF HasReadyTasks, Expired
  <2>2. ASSUME NEW s \in Seqs, immediate'[s] # <<>> PROVE Responsible(s)'
    BY <1>1, <1>2, <2>1, <2>2 DEF NoLostTask
  <2>3. ASSUME NEW s \in Seqs, NEW d \in delayed'[s]
        PROVE  TimerResponsible(s, d.ready)' \/ (d.ready <= now' /\ Responsible(s)')
    <3>1. PICK r : r = d.ready
      OBVIOUS
    <3>2. TimerResponsible(s, d.ready) \/ (d.ready <= now /\ Responsible(s))
      BY <1>1 DEF NoLostTask
    <3>3. TimerResponsible(s, r) \/ (d.ready <= now /\ s # q /\ Responsible(s))
      BY <1>1, <2>1, <3>1, <3>2 DEF TimerResponsible
    <3>4. TimerResponsible(s, r) => TimerResponsible(s, r)'
      BY <1>3
    <3>5. TimerResponsible(s, r)' \/ (d.ready <= now /\ Responsible(s)')
      BY <1>2, <3>3, <3>4
    <3> QED BY <1>1, <3>1, <3>5 DEF TimerResponsible
  <2> QED BY <2>2, <2>3 DEF NoLostTask
<1> QED BY <1>4, <1>5

\* The timer takes responsibility away from the heap only for a passed deadline,
\* and then pushes the sequence itself.
LEMMA TimerLoopServed ==
    ASSUME Typed, TimerLoop
    PROVE  StillServed
<1> USE DEF Typed, TypeOK, Goto
<1>0. /\ pc[Timer] = "timer_loop"
      /\ UNCHANGED <<immediate, delayed, queue, src, now>>
      /\ \A th \in Threads : th # Timer => pc'[th] = pc[th]
      /\ Timer \in Threads
  BY DEF TimerLoop, WaitUntil, seqVars, Threads
<1>1. CASE UNCHANGED <<heap, out>>
  BY <1>0, <1>1 DEF StillServed, Responsible, TimerResponsible
<1>2. ASSUME NEW i \in DOMAIN heap, heap[i].ready <= now, heap' = RemoveAt(heap, i),
             out' = [out EXCEPT ![Timer] =
                        [seq |-> heap[i].seq, task |-> NoTask,
                         ready |-> heap[i].ready]],
             Goto(Timer, "push")
      PROVE  StillServed
  <2>1. \A j \in DOMAIN heap : j # i =>
           \E k \in DOMAIN heap' : heap'[k] = heap[j]
    <3> DEFINE S == [seq : Seqs, ready : Nat]
    <3>1. heap \in Seq(S)
      OBVIOUS
    <3> HIDE DEF S
    <3> QED BY <1>2, <3>1, RemoveAtElements
  <2>2. /\ pc'[Timer] = "push" /\ out'[Timer].seq = heap[i].seq
        /\ \A th \in Threads : th # Timer => out'[th] = out[th]
    BY <1>0, <1>2
  <2>3. \A s \in Seqs : heap[i].seq = s => Responsible(s)'
    BY <1>0, <2>2 DEF Responsible
  <2>4. \A s \in Seqs : Responsible(s) => Responsible(s)'
    BY <1>0, <2>2 DEF Responsible
  <2>5. ASSUME NEW s \in Seqs, NEW r \in Nat, TimerResponsible(s, r)
        PROVE  TimerResponsible(s, r)' \/ (r <= now /\ Responsible(s)')
    <3>1. ASSUME NEW j \in DOMAIN heap, heap[j].seq = s, heap[j].ready = r
          PROVE  TimerResponsible(s, r)' \/ (r <= now /\ Responsible(s)')
      <4>1. CASE j = i
        BY <1>2, <2>3, <3>1, <4>1
      <4>2. CASE j # i
        BY <2>1, <3>1, <4>2 DEF TimerResponsible
      <4> QED BY <4>1, <4>2
    <3>2. CASE \E th \in Threads : pc[th] = "add" /\ out[th].seq = s /\ out[th].ready = r
      BY <1>0, <2>2, <3>2 DEF TimerResponsible
    <3> QED BY <2>5, <3>1, <3>2 DEF TimerResponsible
  <2> QED BY <1>0, <2>4, <2>5 DEF StillServed
<1> QED BY <1>1, <1>2 DEF TimerLoop, WaitUntil

LEMMA TickNoLost ==
    ASSUME Typed, NoLostTask, Tick
    PROVE  NoLostTask'
<1>1. /\ UNCHANGED <<immediate, delayed, queue, heap, pc, src, out>>
      /\ now' = now + 1 /\ now \in Nat
  BY DEF Tick, Typed, TypeOK, seqVars, dtmVars
<1>2. ASSUME NEW s \in Seqs PROVE Responsible(s) <=> Responsible(s)'
  BY <1>1 DEF Responsible
<1>3. ASSUME NEW s \in Seqs, immediate'[s] # <<>> PROVE Responsible(s)'
  BY <1>1, <1>2, <1>3 DEF NoLostTask
<1>4. ASSUME NEW s \in Seqs, NEW d \in delayed'[s]
      PROVE  TimerResponsible(s, d.ready)' \/ (d.ready <= now' /\ Responsible(s)')
  <2>1. d.ready \in Nat
    BY <1>1 DEF Typed, TypeOK, DelayedTasks
  <2>2. TimerResponsible(s, d.ready) \/ (d.ready <= now /\ Responsible(s))
    BY <1>1 DEF NoLostTask
  <2>3. CASE TimerResponsible(s, d.ready)
    BY <1>1, <2>3 DEF TimerResponsible
  <2>4. CASE d.ready <= now /\ Responsible(s)
    BY <1>1, <1>2, <2>1, <2>4
  <2> QED BY <2>2, <2>3, <2>4
<1> QED BY <1>3, <1>4 DEF NoLostTask

LEMMA NextNoLost == Typed /\ Exclusive /\ NoLostTask /\ [Next]_vars => NoLostTask'
<1> SUFFICES ASSUME Typed, Exclusive, NoLostTask, [Next]_vars PROVE NoLostTask'
  OBVIOUS
<1> USE ConstantsAssumption DEF Typed
<1>0. ASSUME Elsewhere \/ StillServed PROVE NoLostTask'
  BY <1>0, ElsewhereStillServed, StillServedNoLost
<1>1. ASSUME NEW th \in Threads, NEW t \in Tasks, PostTask(th, t),
             pc[th] \notin {"push", "add"}
      PROVE  NoLostTask'
  <2>1. CASE PushTask(th, t)
    BY <1>1, <2>1, PushTaskNoLost
  <2>2. CASE ReadClock(th, t)
    <3>1. StillServed
      BY <1>1, <2>2 DEF ReadClock, Goto, TypeOK, seqVars, dtmVars, StillServed,
                        Responsible, TimerResponsible
    <3> QED BY <1>0, <3>1
  <2> QED BY <1>1, <2>1, <2>2 DEF PostTask
<1>2. ASSUME NEW c \in Clients, NEW t \in Tasks, Post(c, t) PROVE NoLostTask'
  BY <1>1, <1>2 DEF Post, Threads
<1>3. ASSUME NEW th \in Threads, HandOver(th) PROVE NoLostTask'
  <2>1. CASE NotifyTimer(th) \/ NotifyOne(th)
    <3>1. Elsewhere
      BY <2>1 DEF NotifyTimer, NotifyOne, WakeTimer, Waiting, Goto, TypeOK, Elsewhere,
                  seqVars, dtmVars, Threads
    <3> QED BY <1>0, <3>1
  <2> QED BY <1>0, <1>3, <2>1, PushDelayedTaskNoLost, AddSequenceServed,
             PushTaskSourceServed DEF HandOver
<1>4. ASSUME NEW w \in Workers, Callback(w) \/ Panic(w) \/ SpuriousWake(w)
                                \/ ReleaseSequence(w)
      PROVE  NoLostTask'
  <2>1. Elsewhere
    BY <1>4 DEF Callback, Panic, SpuriousWake, ReleaseSequence, Goto, TypeOK, Elsewhere,
                seqVars, dtmVars, Threads
  <2> QED BY <1>0, <2>1
<1>5. ASSUME NEW w \in Workers, PostReply(w) PROVE NoLostTask'
  <2>1. Reply[task[w]] \in Tasks /\ pc[w] = "reply" /\ w \in Threads
    BY <1>5 DEF PostReply, Control, WorkerControl, Holding, TypeOK, Threads
  <2> QED BY <1>1, <1>5, <2>1 DEF PostReply
<1>6. ASSUME NEW w \in Workers, WorkerStep(w) PROVE NoLostTask'
  BY <1>0, <1>4, <1>5, <1>6, GetWorkServed, WillRunTaskServed, TakeTaskNoLost,
     CheckMoreNoLost DEF WorkerStep, DidProcessTask
<1>7. ASSUME TimerLoop PROVE NoLostTask'
  BY <1>0, <1>7, TimerLoopServed
<1>8. ASSUME TimerTimeout \/ TimerSpuriousWake PROVE NoLostTask'
  <2>1. Elsewhere
    BY <1>8 DEF TimerTimeout, TimerSpuriousWake, TimerWakes, Goto, TypeOK, Elsewhere,
                seqVars, dtmVars, Threads
  <2> QED BY <1>0, <2>1
<1>9. ASSUME Shutdown PROVE NoLostTask'
  <2>1. Elsewhere
    BY <1>9 DEF Shutdown, JoinAll, NotifyAll, JoinWorkers, StopTimer, NotifyStop, JoinTimer,
                OwnerStep, WakeTimer, Waiting, Goto, TypeOK, Elsewhere, seqVars,
                dtmVars, Threads
  <2> QED BY <1>0, <2>1
<1>10. ASSUME UNCHANGED vars PROVE NoLostTask'
  <2>1. Elsewhere
    BY <1>10 DEF vars, Elsewhere
  <2> QED BY <1>0, <2>1
<1> QED BY <1>2, <1>3, <1>4, <1>6, <1>7, <1>8, <1>9, <1>10, TickNoLost
        DEF Next, Stopped

\* No posted task is ever stranded in its sequence.
THEOREM NoLostTaskHolds == Spec => []NoLostTask
<1> QED BY InitTyped, NextTyped, InitExclusive, NextExclusive, InitNoLost, NextNoLost,
           PTL DEF Spec

-----------------------------------------------------------------------------
(* Nobody sleeps on work *)

\* The number of threads at a point is a number: a process has finitely many.
LEMMA ThreadsFinite == IsFiniteSet(Threads)
<1>1. IsFiniteSet((Workers \cup Clients) \cup {Timer})
  BY ThreadsAssumption, FS_Union, FS_AddElement
<1>2. Threads = ((Workers \cup Clients) \cup {Timer}) \cup {Owner}
  BY DEF Threads
<1> QED BY <1>1, <1>2, FS_AddElement

LEMMA AtCardinality ==
    ASSUME NEW l
    PROVE  /\ IsFiniteSet(At(l)) /\ Cardinality(At(l)) \in Nat
           /\ IsFiniteSet(At(l)') /\ Cardinality(At(l)') \in Nat
<1>1. At(l) \subseteq Threads /\ At(l)' \subseteq Threads
  BY DEF At
<1> QED BY <1>1, ThreadsFinite, FS_Subset, FS_CardinalityType

\* Steps after which as many threads are about to look or to notify as before.
Calm ==
    /\ UNCHANGED <<queue, heap, wakeAt>>
    /\ shutdown => shutdown'
    /\ \A th \in Threads :
          /\ pc[th] \in {"get_work", "notify", "notify_timer"} => pc'[th] = pc[th]
          /\ pc'[th] \in {"waiting", "timer_wait"} => pc'[th] = pc[th]

LEMMA CalmNoSleep == NoSleepOnWork /\ Calm => NoSleepOnWork'
<1> SUFFICES ASSUME NoSleepOnWork, Calm PROVE NoLostWakeup' /\ TimerArmed'
  BY DEF NoSleepOnWork
<1>1. \A l \in {"get_work", "notify", "notify_timer"} : At(l) \subseteq At(l)'
  BY DEF Calm, At
<1>2. \A l \in {"get_work", "notify"} :
         /\ Cardinality(At(l)) \in Nat /\ Cardinality(At(l)') \in Nat
         /\ Cardinality(At(l)) <= Cardinality(At(l)')
  BY <1>1, AtCardinality, FS_Subset
<1>3. Waiting' \subseteq Waiting
  BY DEF Calm, Waiting, Threads
<1>4. NoLostWakeup'
  <2> SUFFICES ASSUME ~shutdown', Waiting' # {}
               PROVE  Len(queue') <= Cardinality(At("get_work")') + Cardinality(At("notify")')
    BY DEF NoLostWakeup
  <2> QED BY <1>2, <1>3 DEF NoSleepOnWork, NoLostWakeup, Calm
<1>5. TimerArmed'
  BY <1>1 DEF NoSleepOnWork, TimerArmed, Calm, Threads
<1> QED BY <1>4, <1>5

LEMMA InitNoSleep == Init => NoSleepOnWork
<1> SUFFICES ASSUME Init PROVE NoLostWakeup /\ TimerArmed
  BY DEF NoSleepOnWork
<1>1. Waiting = {} /\ pc[Timer] = "timer_loop"
  BY ConstantsAssumption DEF Init, Waiting, Threads
<1> QED BY <1>1 DEF NoLostWakeup, TimerArmed

LEMMA PushTaskSourceNoSleep ==
    ASSUME Typed, NoSleepOnWork, NEW th \in Threads, PushTaskSource(th)
    PROVE  NoSleepOnWork'
<1> USE DEF Typed, TypeOK, Goto
<1>1. /\ pc[th] = "push" /\ pc' = [pc EXCEPT ![th] = "notify"]
      /\ UNCHANGED <<heap, wakeAt, shutdown>>
      /\ queue' = Append(queue, out[th].seq) /\ out[th].seq \in Seqs
  BY DEF PushTaskSource, dtmVars, Control, Handovers
<1>2. Len(queue') = Len(queue) + 1 /\ Len(queue) \in Nat
  BY <1>1
<1>3. /\ At("get_work")' = At("get_work") /\ At("notify_timer")' = At("notify_timer")
      /\ At("notify")' = At("notify") \cup {th} /\ th \notin At("notify")
  BY <1>1 DEF At
<1>4. Cardinality(At("notify")') = Cardinality(At("notify")) + 1
  BY <1>3, AtCardinality, FS_AddElement
<1>5. Waiting' = Waiting
  BY <1>1 DEF Waiting, Threads
<1>6. NoLostWakeup'
  <2>1. /\ Cardinality(At("get_work")) \in Nat /\ Cardinality(At("notify")) \in Nat
        /\ Cardinality(At("get_work")') = Cardinality(At("get_work"))
    BY <1>3, AtCardinality
  <2> HIDE DEF Typed, TypeOK, Goto
  <2>2. PICK g \in Nat : g = Cardinality(At("get_work"))
    BY <2>1
  <2>3. PICK n \in Nat : n = Cardinality(At("notify"))
    BY <2>1
  <2>4. PICK l \in Nat : l = Len(queue)
    BY <1>2
  <2>5. SUFFICES ASSUME ~shutdown', Waiting' # {} PROVE l + 1 <= g + (n + 1)
    BY <1>2, <1>4, <2>1, <2>2, <2>3, <2>4 DEF NoLostWakeup
  <2>6. l <= g + n
    BY <1>1, <1>5, <2>2, <2>3, <2>4, <2>5 DEF NoSleepOnWork, NoLostWakeup
  <2> QED BY <2>6
<1>7. TimerArmed'
  <2>1. pc'[Timer] = "timer_wait" => pc[Timer] = "timer_wait"
    BY <1>1 DEF Threads
  <2> QED BY <1>1, <1>3, <2>1 DEF NoSleepOnWork, TimerArmed
<1> QED BY <1>6, <1>7 DEF NoSleepOnWork

LEMMA NotifyOneNoSleep ==
    ASSUME Typed, NoSleepOnWork, NEW th \in Threads, NotifyOne(th)
    PROVE  NoSleepOnWork'
<1> USE DEF Typed, TypeOK
<1>1. /\ pc[th] = "notify" /\ UNCHANGED <<queue, heap, wakeAt, shutdown>>
      /\ Return(th) \notin {"waiting", "timer_wait", "notify", "notify_timer"}
  BY DEF NotifyOne, dtmVars, Return
<1>2. /\ \A v \in Threads : pc'[v] \in {"waiting", "timer_wait"} => pc'[v] = pc[v]
      /\ At("notify_timer") \subseteq At("notify_timer")'
  BY <1>1 DEF NotifyOne, Goto, At, Threads, Waiting
<1>3. TimerArmed'
  BY <1>1, <1>2 DEF NoSleepOnWork, TimerArmed, Threads
<1>4. NoLostWakeup'
  <2>1. CASE Waiting = {}
    <3>1. Waiting' = {}
      BY <1>2, <2>1 DEF Waiting, Threads
    <3> QED BY <3>1 DEF NoLostWakeup
  <2>2. ASSUME NEW w \in Waiting,
               pc' = [pc EXCEPT ![th] = Return(th), ![w] = "get_work"]
        PROVE  NoLostWakeup'
    <3>1. w \in Threads /\ pc[w] = "waiting" /\ w # th
      BY <1>1 DEF Waiting, Threads
    <3>2. pc'[w] = "get_work" /\ pc'[th] = Return(th)
          /\ \A v \in Threads \ {th, w} : pc'[v] = pc[v]
      BY <2>2, <3>1
    <3>3. /\ At("notify") \ {th} = At("notify")' /\ th \in At("notify")
          /\ At("get_work") \cup {w} \subseteq At("get_work")' /\ w \notin At("get_work")
      BY <1>1, <3>1, <3>2 DEF At
    <3>4. Cardinality(At("notify")') = Cardinality(At("notify")) - 1
      BY <3>3, AtCardinality, FS_RemoveElement
    <3>5. Cardinality(At("get_work")) + 1 <= Cardinality(At("get_work")')
      <4>1. /\ IsFiniteSet(At("get_work") \cup {w})
            /\ Cardinality(At("get_work") \cup {w}) = Cardinality(At("get_work")) + 1
        BY <3>3, AtCardinality, FS_AddElement
      <4> QED BY <3>3, <4>1, AtCardinality, FS_Subset
    <3>6. /\ Cardinality(At("get_work")) \in Nat /\ Cardinality(At("get_work")') \in Nat
          /\ Cardinality(At("notify")) \in Nat /\ Len(queue) \in Nat
      BY AtCardinality
    <3>7. ~shutdown => Len(queue) <= Cardinality(At("get_work")) + Cardinality(At("notify"))
      BY DEF NoSleepOnWork, NoLostWakeup
    <3> QED BY <1>1, <3>4, <3>5, <3>6, <3>7 DEF NoLostWakeup
  <2> QED BY <2>1, <2>2 DEF NotifyOne
<1> QED BY <1>3, <1>4 DEF NoSleepOnWork

LEMMA GetWorkNoSleep ==
    ASSUME Typed, NoSleepOnWork, NEW w \in Workers, GetWork(w)
    PROVE  NoSleepOnWork'
<1> USE DEF Typed, TypeOK, Goto
<1>1. /\ pc[w] = "get_work" /\ UNCHANGED <<heap, wakeAt, shutdown>>
      /\ w \in Threads /\ w # Timer
      /\ \A v \in Threads \ {w} : pc'[v] = pc[v]
      /\ pc'[w] \in {"exited", "will_run", "waiting"}
  BY ConstantsAssumption DEF GetWork, dtmVars, Threads
<1>2. TimerArmed'
  <2>1. At("notify_timer")' = At("notify_timer") /\ pc'[Timer] = pc[Timer]
    BY <1>1 DEF At, Threads
  <2> QED BY <1>1, <2>1 DEF NoSleepOnWork, TimerArmed
<1>3. ASSUME shutdown PROVE NoLostWakeup'
  <2>1. shutdown'
    BY <1>1, <1>3
  <2> QED BY <2>1 DEF NoLostWakeup
<1>4. ASSUME queue = <<>>, queue' = queue PROVE NoLostWakeup'
  <2>1. Cardinality(At("get_work")') \in Nat /\ Cardinality(At("notify")') \in Nat
    BY AtCardinality
  <2> QED BY <1>4, <2>1 DEF NoLostWakeup
<1>5. ASSUME NEW i \in DOMAIN queue, queue' = RemoveAt(queue, i), pc'[w] = "will_run"
      PROVE  NoLostWakeup'
  <2>1. Len(queue') = Len(queue) - 1 /\ Len(queue) \in Nat
    BY <1>5, RemoveAtElements
  <2>2. /\ At("get_work")' = At("get_work") \ {w} /\ w \in At("get_work")
        /\ At("notify")' = At("notify")
    BY <1>1, <1>5 DEF At
  <2>3. Cardinality(At("get_work")') = Cardinality(At("get_work")) - 1
    BY <2>2, AtCardinality, FS_RemoveElement
  <2>4. Waiting' = Waiting
    BY <1>1, <1>5 DEF Waiting, Threads
  <2>5. Cardinality(At("get_work")) \in Nat /\ Cardinality(At("notify")) \in Nat
        /\ Cardinality(At("notify")') = Cardinality(At("notify"))
    BY <2>2, AtCardinality
  <2> QED BY <1>1, <2>1, <2>3, <2>4, <2>5 DEF NoSleepOnWork, NoLostWakeup
<1> QED BY <1>1, <1>2, <1>3, <1>4, <1>5 DEF NoSleepOnWork, GetWork

LEMMA AddSequenceNoSleep ==
    ASSUME Typed, NoSleepOnWork, NEW th \in Threads, AddSequence(th)
    PROVE  NoSleepOnWork'
<1> USE DEF Typed, TypeOK, Goto
<1>1. /\ pc[th] = "add" /\ pc' = [pc EXCEPT ![th] = "notify_timer"]
      /\ UNCHANGED <<queue, shutdown>>
  BY DEF AddSequence, seqVars
<1>2. /\ At("get_work")' = At("get_work") /\ At("notify")' = At("notify")
      /\ th \in At("notify_timer")' /\ Waiting' = Waiting
  BY <1>1 DEF At, Waiting, Threads
<1>3. NoLostWakeup'
  BY <1>1, <1>2 DEF NoSleepOnWork, NoLostWakeup
<1> QED BY <1>2, <1>3 DEF NoSleepOnWork, TimerArmed

LEMMA NotifyTimerNoSleep ==
    ASSUME Typed, NoSleepOnWork, NEW th \in Threads, NotifyTimer(th)
    PROVE  NoSleepOnWork'
<1> USE DEF Typed, TypeOK
<1>1. /\ pc[th] = "notify_timer" /\ th # Timer /\ UNCHANGED <<queue, shutdown>>
      /\ Return(th) \notin {"waiting", "timer_wait", "notify", "notify_timer"}
  BY DEF NotifyTimer, seqVars, Return, Control
<1>2. pc'[Timer] # "timer_wait"
  BY <1>1 DEF NotifyTimer, WakeTimer, Threads
<1>3. \A v \in Threads : \/ pc'[v] = pc[v]
                         \/ v = th /\ pc'[v] = Return(th)
                         \/ v = Timer /\ pc[v] = "timer_wait" /\ pc'[v] = "timer_loop"
  BY <1>1 DEF NotifyTimer, WakeTimer, Threads
<1>4. /\ At("get_work") \subseteq At("get_work")' /\ At("notify") \subseteq At("notify")'
      /\ Waiting' \subseteq Waiting
  BY <1>1, <1>3 DEF At, Waiting, Threads
<1>5. \A l \in {"get_work", "notify"} :
         /\ Cardinality(At(l)) \in Nat /\ Cardinality(At(l)') \in Nat
         /\ Cardinality(At(l)) <= Cardinality(At(l)')
  BY <1>4, AtCardinality, FS_Subset
<1>6. NoLostWakeup'
  BY <1>1, <1>4, <1>5 DEF NoSleepOnWork, NoLostWakeup
<1> QED BY <1>2, <1>6 DEF NoSleepOnWork, TimerArmed

\* timer_loop waits for the earliest deadline of its heap, chosen under the lock
\* that wait_timeout releases.
LEMMA TimerLoopNoSleep ==
    ASSUME Typed, NoSleepOnWork, TimerLoop
    PROVE  NoSleepOnWork'
<1> USE DEF Typed, TypeOK, Goto
<1>1. /\ pc[Timer] = "timer_loop" /\ UNCHANGED <<queue, shutdown>> /\ Timer \in Threads
      /\ \A v \in Threads \ {Timer} : pc'[v] = pc[v]
      /\ pc'[Timer] \in {"exited", "timer_wait", "push"}
  BY DEF TimerLoop, WaitUntil, seqVars, Threads
<1>2. /\ At("get_work")' = At("get_work") /\ At("notify")' = At("notify")
      /\ Waiting' = Waiting
  BY <1>1, ConstantsAssumption DEF At, Waiting, Threads
<1>3. NoLostWakeup'
  BY <1>1, <1>2 DEF NoSleepOnWork, NoLostWakeup
<1>4. CASE heap = <<>> /\ heap' = heap
  BY <1>3, <1>4 DEF NoSleepOnWork, TimerArmed
<1>5. ASSUME NEW i \in DOMAIN heap, IsNext(i), WaitUntil(heap[i].ready)
      PROVE  TimerArmed'
  <2> DEFINE S == [seq : Seqs, ready : Nat]
  <2>0. \A j \in DOMAIN heap : heap[j] \in S
    <3>1. heap \in Seq(S)
      OBVIOUS
    <3> HIDE DEF S
    <3> QED BY <3>1
  <2>1. /\ heap' = heap /\ wakeAt' = heap[i].ready /\ heap[i].ready \in Nat
        /\ \A j \in DOMAIN heap : heap[j].ready \in Nat
    BY <1>5, <2>0 DEF WaitUntil
  <2>2. ASSUME NEW j \in DOMAIN heap PROVE wakeAt' <= heap[j].ready
    <3>1. PICK a \in Nat, b \in Nat : a = heap[i].ready /\ b = heap[j].ready
      BY <2>1
    <3>2. a < b \/ a = b
      BY <1>5, <3>1 DEF IsNext
    <3>3. a <= b
      BY <3>2
    <3> QED BY <2>1, <3>1, <3>3
  <2>3. wakeAt' # NoTimeout
    BY <2>1, ConstantsAssumption
  <2> QED BY <2>1, <2>2, <2>3 DEF TimerArmed
<1>6. pc'[Timer] # "timer_wait" => TimerArmed'
  BY DEF TimerArmed
<1> QED BY <1>1, <1>3, <1>4, <1>5, <1>6 DEF TimerLoop, WaitUntil, NoSleepOnWork

LEMMA NextNoSleep == Typed /\ NoSleepOnWork /\ [Next]_vars => NoSleepOnWork'
<1> SUFFICES ASSUME Typed, NoSleepOnWork, [Next]_vars PROVE NoSleepOnWork'
  OBVIOUS
<1> USE ConstantsAssumption DEF Typed, TypeOK
<1>0. ASSUME Calm PROVE NoSleepOnWork'
  BY <1>0, CalmNoSleep
<1>1. ASSUME NEW th \in Threads, NEW t \in Tasks, PostTask(th, t),
             pc[th] \in {"idle", "reply"}
      PROVE  Calm
  BY <1>1 DEF PostTask, PushTask, ReadClock, Goto, Calm, seqVars, dtmVars
<1>2. ASSUME NEW c \in Clients, NEW t \in Tasks, Post(c, t) PROVE Calm
  BY <1>1, <1>2 DEF Post, Threads
<1>3. ASSUME NEW th \in Threads, HandOver(th) PROVE NoSleepOnWork'
  <2>1. ASSUME PushDelayedTask(th) PROVE Calm
    BY <2>1 DEF PushDelayedTask, Goto, Calm, seqVars, dtmVars
  <2> QED BY <1>0, <1>3, <2>1, AddSequenceNoSleep, NotifyTimerNoSleep, NotifyOneNoSleep,
             PushTaskSourceNoSleep DEF HandOver
<1>4. ASSUME NEW w \in Workers, WillRunTask(w) \/ TakeTask(w) \/ Callback(w) \/ Panic(w)
                                \/ SpuriousWake(w) \/ DidProcessTask(w)
      PROVE  Calm
  <2>1. CASE WillRunTask(w) \/ TakeTask(w)
    BY <2>1 DEF WillRunTask, TakeTask, Goto, Calm, seqVars, dtmVars, Threads
  <2>2. CASE Callback(w) \/ Panic(w)
    BY <2>2 DEF Callback, Panic, Goto, Calm, seqVars, dtmVars, Threads
  <2>3. CASE SpuriousWake(w)
    BY <2>3 DEF SpuriousWake, Goto, Calm, seqVars, dtmVars, Threads
  <2>4. CASE DidProcessTask(w)
    BY <2>4 DEF DidProcessTask, ReleaseSequence, CheckMore, Goto, Calm, seqVars, dtmVars,
                Threads
  <2> QED BY <1>4, <2>1, <2>2, <2>3, <2>4
<1>5. ASSUME NEW w \in Workers, PostReply(w) PROVE Calm
  <2>1. Reply[task[w]] \in Tasks /\ pc[w] = "reply" /\ w \in Threads
    BY <1>5 DEF PostReply, Control, WorkerControl, Holding, Threads
  <2> QED BY <1>1, <1>5, <2>1 DEF PostReply
<1>6. ASSUME NEW w \in Workers, WorkerStep(w) PROVE NoSleepOnWork'
  BY <1>0, <1>4, <1>5, <1>6, GetWorkNoSleep DEF WorkerStep
<1>7. ASSUME TimerTimeout \/ TimerSpuriousWake PROVE Calm
  BY <1>7 DEF TimerTimeout, TimerSpuriousWake, TimerWakes, Goto, Calm, seqVars, dtmVars,
              Threads
<1>8. ASSUME Shutdown PROVE Calm
  <2>1. CASE JoinAll \/ JoinWorkers \/ StopTimer \/ JoinTimer
    BY <2>1 DEF JoinAll, JoinWorkers, StopTimer, JoinTimer, OwnerStep, Goto, Calm,
                seqVars, dtmVars, Threads
  <2>2. CASE NotifyAll
    BY <2>2 DEF NotifyAll, Waiting, Calm, seqVars, dtmVars, Threads
  <2>3. CASE NotifyStop
    BY <2>3 DEF NotifyStop, WakeTimer, Calm, seqVars, dtmVars, Threads
  <2> QED BY <1>8, <2>1, <2>2, <2>3 DEF Shutdown
<1>9. ASSUME Tick \/ UNCHANGED vars PROVE Calm
  BY <1>9 DEF Tick, vars, Calm, seqVars, dtmVars
<1> QED BY <1>0, <1>2, <1>3, <1>4, <1>6, <1>7, <1>8, <1>9, TimerLoopNoSleep
        DEF Next, Stopped

\* No wake-up is lost: no worker sleeps while an entry of the priority queue has
\* nobody coming for it, and the timer sleeps past no deadline of its heap.
THEOREM NoSleepOnWorkHolds == Spec => []NoSleepOnWork
<1> QED BY InitTyped, NextTyped, InitNoSleep, NextNoSleep, PTL DEF Spec
-----------------------------------------------------------------------------
(* Each task is posted, waits and runs once *)

\* Where a posted task can be on its way to its worker.
Lined(t) == \E i \in DOMAIN immediate[SequenceOf[t]] : immediate[SequenceOf[t]][i] = t
Deferred(t) == \E d \in delayed[SequenceOf[t]] : d.task = t
Inserted(t) == \E th \in Threads : pc[th] = "insert" /\ out[th].task = t
Started(t) == t \in finished \/ \E w \in Workers : task[w] = t

\* A task is in one place only, and nowhere before it is posted.
Separate ==
    \A t \in Tasks :
        /\ Lined(t) => ~Deferred(t) /\ ~Inserted(t) /\ ~Started(t)
        /\ Deferred(t) => ~Inserted(t) /\ ~Started(t)
        /\ Inserted(t) => ~Started(t)
        /\ (Lined(t) \/ Deferred(t) \/ Inserted(t) \/ Started(t)) => t \in posted

\* It is there once.
Single ==
    /\ \A s \in Seqs : \A i, j \in DOMAIN immediate[s] :
          immediate[s][i] = immediate[s][j] => i = j
    /\ \A s \in Seqs : \A d, e \in delayed[s] : d.task = e.task => d = e
    /\ \A th, u \in Threads :
          /\ pc[th] = "insert" /\ pc[u] = "insert"
          /\ out[th].task = out[u].task
          => th = u

\* A worker past the callback of its task has finished it, one in it has not.
Ran ==
    \A w \in Workers :
        /\ pc[w] = "callback" => task[w] \notin finished
        /\ task[w] # NoTask /\ pc[w] \notin {"callback", "dead"} => task[w] \in finished

\* The reply to a task is posted by the end of its callback and not again.
ReplyOnce ==
    \A t \in Tasks : Reply[t] \in posted =>
        /\ t \in finished
        /\ \A w \in Workers : pc[w] = "reply" => task[w] # t

\* A deadline lies the delay after an instant that has been.
Dated ==
    \A th \in Threads : pc[th] = "insert" =>
        /\ out[th].task \in Delayed
        /\ out[th].ready \in Delay[out[th].task] .. now + Delay[out[th].task]

Once == Separate /\ Single /\ Ran /\ ReplyOnce /\ Dated

\* Steps that touch neither a queue of a sequence nor what a worker runs.
Aside ==
    /\ UNCHANGED <<immediate, delayed, task, posted, finished>>
    /\ now' \in Nat /\ now <= now'
    /\ \A th \in Threads : pc'[th] = "insert" => pc[th] = "insert" /\ out'[th] = out[th]
    /\ \A w \in Workers :
          /\ pc'[w] \in {"callback", "reply"} => pc'[w] = pc[w]
          /\ pc[w] \in {"callback", "dead"} => pc'[w] \in {"callback", "dead"}

LEMMA AsideOnce ==
    ASSUME Typed, Once, Aside
    PROVE  Once'
<1>1. /\ \A t \in Tasks : Lined(t)' = Lined(t) /\ Deferred(t)' = Deferred(t)
      /\ \A t \in Tasks : Inserted(t)' => Inserted(t)
      /\ \A t \in Tasks : Started(t)' = Started(t)
  BY DEF Aside, Lined, Deferred, Inserted, Started
<1>2. Separate'
  BY <1>1 DEF Once, Separate, Aside
<1>3. Single'
  BY DEF Once, Single, Aside
<1>4. Ran'
  BY DEF Once, Ran, Aside
<1>5. ReplyOnce'
  BY DEF Once, ReplyOnce, Aside
<1>6. Dated'
  <2> SUFFICES ASSUME NEW th \in Threads, pc'[th] = "insert"
               PROVE  /\ out'[th].task \in Delayed
                      /\ out'[th].ready \in Delay[out'[th].task]
                                            .. now' + Delay[out'[th].task]
    BY DEF Dated
  <2>1. /\ out[th].task \in Delayed /\ out'[th] = out[th]
        /\ out[th].ready \in Delay[out[th].task] .. now + Delay[out[th].task]
    BY DEF Once, Dated, Aside
  <2>2. Delay[out[th].task] \in Nat /\ now \in Nat /\ now' \in Nat /\ now <= now'
    BY <2>1, ConstantsAssumption DEF Aside, Typed, TypeOK
  <2> QED BY <2>1, <2>2
<1> QED BY <1>2, <1>3, <1>4, <1>5, <1>6 DEF Once

LEMMA InitOnce == Init => Once
<1> SUFFICES ASSUME Init PROVE Once
  OBVIOUS
<1> USE ConstantsAssumption DEF Init, SequencesInit, GroupInit, TimerInit
<1>1. \A th \in Threads : pc[th] \in {"get_work", "timer_loop", "idle"}
  OBVIOUS
<1>2. \A t \in Tasks : ~Lined(t) /\ ~Deferred(t) /\ ~Inserted(t) /\ ~Started(t)
  BY <1>1 DEF Lined, Deferred, Inserted, Started
<1>3. Separate
  BY <1>2 DEF Separate
<1>4. Single
  BY <1>1 DEF Single
<1>5. Ran /\ ReplyOnce /\ Dated
  BY <1>1 DEF Ran, ReplyOnce, Dated, Threads
<1> QED BY <1>3, <1>4, <1>5 DEF Once

LEMMA PostedReplyOnce ==
    ASSUME Typed, Exclusive, Once, NEW th \in Threads, NEW t \in Tasks,
           posted' = posted \cup {t}, UNCHANGED <<task, finished>>,
           \A w \in Workers : pc'[w] = "reply" => w # th /\ pc[w] = "reply",
           \A u \in Tasks : Reply[u] = t => th \in Workers /\ pc[th] = "reply" /\ task[th] = u
    PROVE  ReplyOnce'
<1> SUFFICES ASSUME NEW u \in Tasks, Reply[u] \in posted'
             PROVE  /\ u \in finished
                    /\ \A w \in Workers : pc'[w] = "reply" => task[w] # u
  BY DEF ReplyOnce
<1>1. CASE Reply[u] \in posted
  BY <1>1 DEF Once, ReplyOnce
<1>2. CASE Reply[u] = t
  <2>1. th \in Workers /\ pc[th] = "reply" /\ task[th] = u /\ u # NoTask
    BY <1>2, ConstantsAssumption
  <2>2. u \in finished
    BY <2>1 DEF Once, Ran
  <2>3. \A w \in Workers : task[w] = u => w = th
    BY <2>1, ExclusiveAlone DEF MutualExclusion
  <2> QED BY <2>2, <2>3
<1> QED BY <1>1, <1>2

LEMMA PushTaskOnce ==
    ASSUME Typed, Exclusive, Once, NEW th \in Threads, NEW t \in Tasks, PushTask(th, t),
           t \notin posted, pc[th] \in {"idle", "reply"},
           \A u \in Tasks : Reply[u] = t => th \in Workers /\ pc[th] = "reply" /\ task[th] = u
    PROVE  Once'
<1> USE DEF Typed
<1>0. PICK s \in Seqs : s = SequenceOf[t]
  BY ConstantsAssumption
<1>1. /\ immediate' = [immediate EXCEPT ![s] = Append(@, t)]
      /\ immediate'[s] = Append(immediate[s], t)
      /\ \A r \in Seqs : r # s => immediate'[r] = immediate[r]
      /\ UNCHANGED <<delayed, task, now, finished>> /\ posted' = posted \cup {t}
      /\ pc'[th] = "push"
      /\ \A v \in Threads : v # th => pc'[v] = pc[v] /\ out'[v] = out[v]
  BY <1>0 DEF PushTask, Goto, TypeOK, dtmVars
<1>2. ~Lined(t) /\ ~Deferred(t) /\ ~Inserted(t) /\ ~Started(t)
  BY DEF Once, Separate
<1>3. /\ immediate[s] \in Seq(Tasks) /\ Len(immediate[s]) \in Nat
      /\ DOMAIN immediate'[s] = 1 .. Len(immediate[s]) + 1
      /\ DOMAIN immediate[s] = 1 .. Len(immediate[s])
      /\ immediate'[s][Len(immediate[s]) + 1] = t
      /\ \A i \in DOMAIN immediate[s] : immediate'[s][i] = immediate[s][i]
  <2>1. immediate[s] \in Seq(Tasks)
    BY DEF TypeOK
  <2> QED BY <1>1, <2>1, AppendProperties
<1>4. \A u \in Tasks : u # t => (Lined(u)' => Lined(u))
  <2> SUFFICES ASSUME NEW u \in Tasks, u # t, Lined(u)' PROVE Lined(u)
    OBVIOUS
  <2>1. PICK i \in DOMAIN immediate'[SequenceOf[u]] : immediate'[SequenceOf[u]][i] = u
    BY DEF Lined
  <2>2. CASE SequenceOf[u] = s
    BY <1>3, <2>1, <2>2 DEF Lined
  <2>3. CASE SequenceOf[u] # s
    BY <1>1, <2>1, <2>3, ConstantsAssumption DEF Lined
  <2> QED BY <2>2, <2>3
<1>5. /\ \A u \in Tasks : Deferred(u)' = Deferred(u) /\ Started(u)' = Started(u)
      /\ \A u \in Tasks : Inserted(u)' => Inserted(u)
  BY <1>1 DEF Deferred, Started, Inserted
<1>6. Separate'
  BY <1>1, <1>2, <1>4, <1>5 DEF Once, Separate
<1>7. Single'
  <2>1. \A i \in DOMAIN immediate[s] : immediate[s][i] # t
    BY <1>0, <1>2 DEF Lined
  <2>2. ASSUME NEW r \in Seqs, NEW i \in DOMAIN immediate'[r], NEW j \in DOMAIN immediate'[r],
               immediate'[r][i] = immediate'[r][j]
        PROVE  i = j
    <3>1. CASE r = s
      <4>1. /\ i \in DOMAIN immediate[s] \/ i = Len(immediate[s]) + 1
            /\ j \in DOMAIN immediate[s] \/ j = Len(immediate[s]) + 1
        BY <1>3, <2>2, <3>1
      <4>2. CASE i \in DOMAIN immediate[s] /\ j \in DOMAIN immediate[s]
        BY <1>3, <2>2, <3>1, <4>2 DEF Once, Single
      <4> QED BY <1>3, <2>1, <2>2, <3>1, <4>1, <4>2
    <3>2. CASE r # s
      BY <1>1, <2>2, <3>2 DEF Once, Single
    <3> QED BY <3>1, <3>2
  <2>3. \A r \in Seqs : \A d, e \in delayed'[r] : d.task = e.task => d = e
    BY <1>1 DEF Once, Single
  <2>4. \A v, u \in Threads : pc'[v] = "insert" /\ pc'[u] = "insert"
                              /\ out'[v].task = out'[u].task => v = u
    BY <1>1 DEF Once, Single
  <2> QED BY <2>2, <2>3, <2>4 DEF Single
<1>8. Ran'
  BY <1>1, ConstantsAssumption DEF Once, Ran, TypeOK, Threads, Control, WorkerControl
<1>9. ReplyOnce'
  <2>1. \A w \in Workers : pc'[w] = "reply" => w # th /\ pc[w] = "reply"
    BY <1>1 DEF Threads
  <2> QED BY <1>1, <2>1, PostedReplyOnce
<1>10. Dated'
  BY <1>1 DEF Once, Dated
<1> QED BY <1>6, <1>7, <1>8, <1>9, <1>10 DEF Once

LEMMA ReadClockOnce ==
    ASSUME Typed, Exclusive, Once, NEW th \in Threads, NEW t \in Delayed, ReadClock(th, t),
           t \notin posted, pc[th] \in {"idle", "reply"},
           \A u \in Tasks : Reply[u] = t => th \in Workers /\ pc[th] = "reply" /\ task[th] = u
    PROVE  Once'
<1> USE DEF Typed
<1>0. t \in Tasks
  BY ConstantsAssumption
<1>1. /\ UNCHANGED <<immediate, delayed, task, now, finished>> /\ posted' = posted \cup {t}
      /\ pc'[th] = "insert" /\ out'[th].task = t /\ out'[th].ready = now + Delay[t]
      /\ \A v \in Threads : v # th => pc'[v] = pc[v] /\ out'[v] = out[v]
  BY DEF ReadClock, Goto, TypeOK, seqVars, dtmVars
<1>2. ~Lined(t) /\ ~Deferred(t) /\ ~Inserted(t) /\ ~Started(t)
  BY <1>0 DEF Once, Separate
<1>3. /\ \A u \in Tasks : Lined(u)' = Lined(u) /\ Deferred(u)' = Deferred(u)
                          /\ Started(u)' = Started(u)
      /\ \A u \in Tasks : Inserted(u)' => Inserted(u) \/ u = t
  BY <1>1 DEF Lined, Deferred, Started, Inserted
<1>4. Separate'
  BY <1>0, <1>1, <1>2, <1>3 DEF Once, Separate
<1>5. Single'
  <2>1. \A v \in Threads : pc[v] = "insert" => out[v].task # t
    BY <1>2 DEF Inserted
  <2> QED BY <1>1, <2>1 DEF Once, Single
<1>6. Ran'
  BY <1>1, ConstantsAssumption DEF Once, Ran, TypeOK, Threads, Control, WorkerControl
<1>7. ReplyOnce'
  <2>1. \A w \in Workers : pc'[w] = "reply" => w # th /\ pc[w] = "reply"
    BY <1>1 DEF Threads
  <2> QED BY <1>0, <1>1, <2>1, PostedReplyOnce
<1>8. Dated'
  <2>1. now \in Nat /\ Delay[t] \in Nat
    BY ConstantsAssumption DEF TypeOK
  <2>2. out'[th].ready \in Delay[t] .. now + Delay[t]
    BY <1>1, <2>1
  <2> QED BY <1>1, <2>2 DEF Once, Dated
<1> QED BY <1>4, <1>5, <1>6, <1>7, <1>8 DEF Once

LEMMA PushDelayedTaskOnce ==
    ASSUME Typed, Once, NEW th \in Threads, PushDelayedTask(th)
    PROVE  Once'
<1> USE DEF Typed
<1>0. PICK s \in Seqs, t \in Tasks, r \in Nat :
         s = out[th].seq /\ t = out[th].task /\ r = out[th].ready /\ SequenceOf[t] = s
  BY DEF PushDelayedTask, TypeOK, Control, Handovers, TasksOf
<1>1. /\ delayed' = [delayed EXCEPT ![s] = @ \cup
                        {[task |-> t, ready |-> r, num |-> nextNum[s]]}]
      /\ UNCHANGED <<immediate, task, out, now, posted, finished>>
      /\ pc[th] = "insert" /\ pc'[th] = "add"
      /\ \A v \in Threads : v # th => pc'[v] = pc[v]
  BY <1>0 DEF PushDelayedTask, Goto, TypeOK, dtmVars
<1>2. Inserted(t) /\ ~Lined(t) /\ ~Deferred(t) /\ ~Started(t) /\ t \in posted
  BY <1>0, <1>1 DEF Once, Separate, Inserted
<1>3. ~Inserted(t)'
  BY <1>0, <1>1 DEF Inserted, Once, Single
<1>4. \A q \in Seqs : \A d \in delayed'[q] :
         d \in delayed[q] \/ (q = s /\ d.task = t)
  <2> DEFINE e == [task |-> t, ready |-> r, num |-> nextNum[s]]
  <2>1. e.task = t /\ delayed' = [delayed EXCEPT ![s] = @ \cup {e}]
    BY <1>1
  <2> HIDE DEF e
  <2> QED BY <2>1 DEF TypeOK
<1>5. /\ \A u \in Tasks : Lined(u)' = Lined(u) /\ Started(u)' = Started(u)
      /\ \A u \in Tasks : Inserted(u)' => Inserted(u)
      /\ \A u \in Tasks : Deferred(u)' => Deferred(u) \/ u = t
  <2>1. \A u \in Tasks : Lined(u)' = Lined(u) /\ Started(u)' = Started(u)
    BY <1>1 DEF Lined, Started
  <2>2. \A u \in Tasks : Inserted(u)' => Inserted(u)
    BY <1>1 DEF Inserted
  <2>3. \A u \in Tasks : Deferred(u)' => Deferred(u) \/ u = t
    BY <1>4, ConstantsAssumption DEF Deferred
  <2> QED BY <2>1, <2>2, <2>3
<1>6. Separate'
  BY <1>1, <1>2, <1>3, <1>5 DEF Once, Separate
<1>7. Single'
  <2>1. ASSUME NEW q \in Seqs, NEW d \in delayed'[q], NEW e \in delayed'[q],
               d.task = e.task
        PROVE  d = e
    <3>1. CASE d \in delayed[q] /\ e \in delayed[q]
      BY <2>1, <3>1 DEF Once, Single
    <3>2. \A x \in delayed[s] : x.task # t
      BY <1>0, <1>2 DEF Deferred
    <3>3. CASE q = s /\ d.task = t
      <4>1. d \notin delayed[s] /\ e \notin delayed[s]
        BY <2>1, <3>2, <3>3
      <4> QED BY <1>1, <2>1, <3>3, <4>1 DEF TypeOK
    <3> QED BY <1>4, <2>1, <3>1, <3>3
  <2> QED BY <1>1, <2>1 DEF Once, Single
<1>8. Ran' /\ ReplyOnce'
  <2>1. \A w \in Workers : \/ pc'[w] = pc[w]
                           \/ pc[w] = "insert" /\ pc'[w] = "add"
    BY <1>1 DEF Threads
  <2> QED BY <1>1, <2>1 DEF Once, Ran, ReplyOnce
<1>9. Dated'
  BY <1>1 DEF Once, Dated
<1> QED BY <1>6, <1>7, <1>8, <1>9 DEF Once

\* flush_ready_delayed_tasks moves each expired task once.
LEMMA FlushOnce ==
    ASSUME TypeOK, Once, NEW s \in Seqs, NEW o \in FlushOrders(Expired(s))
    PROVE  /\ DOMAIN o = 1 .. Cardinality(Expired(s)) /\ Cardinality(Expired(s)) \in Nat
           /\ \A i \in DOMAIN o : o[i] \in Expired(s)
           /\ \A i, j \in DOMAIN o : o[i].task = o[j].task => i = j
<1>1. Cardinality(Expired(s)) \in Nat
  BY FlushedTasks
<1>2. /\ DOMAIN o = 1 .. Cardinality(Expired(s))
      /\ \A i \in DOMAIN o : o[i] \in Expired(s)
      /\ \A i, j \in DOMAIN o : i < j => Before(o[i], o[j])
  BY DEF FlushOrders
<1>3. \A d \in Expired(s) : d \in delayed[s] /\ d.ready \in Nat /\ d.num \in Nat
  BY DEF Expired, TypeOK, DelayedTasks
<1>4. ASSUME NEW i \in DOMAIN o, NEW j \in DOMAIN o, i < j PROVE o[i].task # o[j].task
  <2>1. PICK d \in delayed[s], e \in delayed[s] :
           d = o[i] /\ e = o[j] /\ d.ready \in Nat /\ d.num \in Nat
    BY <1>2, <1>3
  <2>2. Before(d, e)
    BY <1>2, <1>4, <2>1
  <2>3. d # e
    <3> SUFFICES ASSUME d = e PROVE FALSE
      OBVIOUS
    <3>1. PICK a \in Nat, b \in Nat : a = d.ready /\ b = d.num
      BY <2>1
    <3>2. a < a \/ b < b
      BY <2>2, <3>1 DEF Before
    <3> QED BY <3>2
  <2> QED BY <2>1, <2>3 DEF Once, Single
<1>5. \A i, j \in DOMAIN o : i = j \/ i < j \/ j < i
  BY <1>1, <1>2
<1> QED BY <1>1, <1>2, <1>4, <1>5

LineUp(s, o) == immediate[s] \o [i \in DOMAIN o |-> o[i].task]

\* The line take_task takes the front of holds no task twice, and only tasks that
\* waited in one of the two queues.
LEMMA LineOnce ==
    ASSUME TypeOK, Once, NEW s \in Seqs, NEW o \in FlushOrders(Expired(s)),
           NEW q, q = LineUp(s, o)
    PROVE  /\ q \in Seq(TasksOf(s))
           /\ \A i, j \in DOMAIN q : q[i] = q[j] => i = j
           /\ \A i \in DOMAIN q : \/ \E k \in DOMAIN immediate[s] : immediate[s][k] = q[i]
                                  \/ \E d \in Expired(s) : d.task = q[i]
<1> DEFINE f == [i \in DOMAIN o |-> o[i].task]
           m == immediate[s]
<1>1. /\ q \in Seq(TasksOf(s)) /\ f \in Seq(TasksOf(s)) /\ m \in Seq(TasksOf(s))
  BY FlushedTasks DEF TypeOK, LineUp
<1>2. /\ DOMAIN f = 1 .. Len(f) /\ \A i, j \in DOMAIN f : f[i] = f[j] => i = j
      /\ \A i \in DOMAIN f : \E d \in Expired(s) : d.task = f[i]
  BY <1>1, FlushOnce
<1>3. \A i, j \in DOMAIN m : m[i] = m[j] => i = j
  BY DEF Once, Single
<1>4. \A i \in DOMAIN m, j \in DOMAIN f : m[i] # f[j]
  <2> SUFFICES ASSUME NEW i \in DOMAIN m, NEW j \in DOMAIN f, m[i] = f[j] PROVE FALSE
    OBVIOUS
  <2>1. m[i] \in Tasks /\ SequenceOf[m[i]] = s
    BY <1>1 DEF TasksOf
  <2>2. Lined(m[i])
    BY <2>1 DEF Lined
  <2>3. Deferred(m[i])
    BY <1>2, <2>1 DEF Deferred, Expired
  <2> QED BY <2>1, <2>2, <2>3 DEF Once, Separate
<1> HIDE DEF f, m
<1>5. /\ DOMAIN q = 1 .. Len(m) + Len(f) /\ Len(m) \in Nat /\ Len(f) \in Nat
      /\ DOMAIN m = 1 .. Len(m)
      /\ \A i \in 1 .. Len(m) + Len(f) : q[i] = IF i <= Len(m) THEN m[i] ELSE f[i - Len(m)]
  <2>1. q = m \o f
    BY DEF m, f, LineUp
  <2>2. /\ Len(q) = Len(m) + Len(f)
        /\ \A i \in 1 .. Len(m) + Len(f) : q[i] = IF i <= Len(m) THEN m[i] ELSE f[i - Len(m)]
    <3>1. PICK S : S = TasksOf(s)
      OBVIOUS
    <3>2. m \in Seq(S) /\ f \in Seq(S)
      BY <1>1, <3>1
    <3>3. /\ Len(m \o f) = Len(m) + Len(f)
          /\ \A i \in 1 .. Len(m) + Len(f) :
                (m \o f)[i] = IF i <= Len(m) THEN m[i] ELSE f[i - Len(m)]
      BY <3>2, ConcatProperties
    <3> QED BY <2>1, <3>3
  <2>3. /\ DOMAIN q = 1 .. Len(q) /\ Len(m) \in Nat /\ Len(f) \in Nat
        /\ DOMAIN m = 1 .. Len(m)
    BY <1>1
  <2> QED BY <2>2, <2>3
<1>6. ASSUME NEW i \in DOMAIN q
      PROVE  \/ i \in DOMAIN m /\ q[i] = m[i]
             \/ i > Len(m) /\ i - Len(m) \in DOMAIN f /\ q[i] = f[i - Len(m)]
  <2>1. i \in 1 .. Len(m) + Len(f) /\ Len(m) \in Nat /\ Len(f) \in Nat
    BY <1>5
  <2>2. CASE i <= Len(m)
    BY <1>5, <2>1, <2>2
  <2>3. CASE i > Len(m)
    <3>1. i - Len(m) \in 1 .. Len(f)
      BY <2>1, <2>3
    <3>2. i - Len(m) \in DOMAIN f
      BY <1>2, <3>1
    <3>3. q[i] = f[i - Len(m)]
      BY <1>5, <2>1, <2>3
    <3> QED BY <2>3, <3>2, <3>3
  <2> QED BY <2>1, <2>2, <2>3
<1>7. ASSUME NEW i \in DOMAIN q, NEW j \in DOMAIN q, q[i] = q[j] PROVE i = j
  <2>1. CASE i \in DOMAIN m /\ q[i] = m[i]
    BY <1>3, <1>4, <1>6, <1>7, <2>1
  <2>2. CASE i > Len(m) /\ i - Len(m) \in DOMAIN f /\ q[i] = f[i - Len(m)]
    <3>1. j > Len(m) /\ j - Len(m) \in DOMAIN f /\ q[j] = f[j - Len(m)]
      BY <1>4, <1>6, <1>7, <2>2
    <3>2. i - Len(m) = j - Len(m)
      BY <1>2, <1>7, <2>2, <3>1
    <3> QED BY <1>5, <3>2
  <2> QED BY <1>6, <2>1, <2>2
<1>8. ASSUME NEW i \in DOMAIN q
      PROVE  \/ \E k \in DOMAIN m : m[k] = q[i]
             \/ \E d \in Expired(s) : d.task = q[i]
  <2>1. CASE i \in DOMAIN m /\ q[i] = m[i]
    BY <2>1
  <2>2. CASE i > Len(m) /\ i - Len(m) \in DOMAIN f /\ q[i] = f[i - Len(m)]
    <3>1. PICK k \in DOMAIN f : q[i] = f[k]
      BY <2>2
    <3> QED BY <1>2, <3>1
  <2> QED BY <1>6, <2>1, <2>2
<1> QED BY <1>1, <1>7, <1>8 DEF m

LEMMA TakeTaskOnce ==
    ASSUME Typed, Once, NEW w \in Workers, TakeTask(w)
    PROVE  Once'
<1> USE DEF Typed
<1>0. PICK s \in Seqs : s = src[w]
  BY DEF TakeTask, Control, WorkerControl, Popped
<1>1. /\ delayed' = [delayed EXCEPT ![s] = @ \ Expired(s)]
      /\ UNCHANGED <<out, now, posted, finished>>
      /\ pc[w] = "take_task" /\ task[w] = NoTask
      /\ pc'[w] \in {"clear", "callback"} /\ w \in Threads
      /\ \A v \in Threads : v # w => pc'[v] = pc[v]
  BY <1>0 DEF TakeTask, Goto, TypeOK, Control, WorkerControl, Popped, Threads
<1>2. /\ delayed'[s] = delayed[s] \ Expired(s)
      /\ \A r \in Seqs : delayed'[r] \subseteq delayed[r]
      /\ \A u \in Tasks : Deferred(u)' => Deferred(u)
      /\ \A u \in Tasks : Inserted(u)' => Inserted(u)
  BY <1>1, ConstantsAssumption DEF TypeOK, Deferred, Inserted
<1>3. Dated' /\ ReplyOnce'
  <2>1. \A v \in Workers : pc'[v] = "reply" => v # w /\ pc[v] = "reply"
    BY <1>1 DEF Threads
  <2>2. \A v \in Workers : v # w => task'[v] = task[v]
    BY <1>0 DEF TakeTask, TypeOK
  <2> QED BY <1>1, <2>1, <2>2 DEF Once, Dated, ReplyOnce
<1>4. CASE UNCHANGED <<immediate, task>> /\ pc'[w] = "clear"
  <2>1. \A u \in Tasks : Lined(u)' = Lined(u) /\ Started(u)' = Started(u)
    BY <1>1, <1>4 DEF Lined, Started
  <2>2. Separate'
    BY <1>1, <1>2, <2>1 DEF Once, Separate
  <2>3. Single'
    BY <1>1, <1>2, <1>4 DEF Once, Single
  <2>4. Ran'
    BY <1>1, <1>4 DEF Once, Ran, Threads
  <2> QED BY <1>3, <2>2, <2>3, <2>4 DEF Once
<1>5. ASSUME NEW o \in FlushOrders(Expired(s)), NEW q,
             q = immediate[s] \o [i \in DOMAIN o |-> o[i].task], q # <<>>,
             immediate' = [immediate EXCEPT ![s] = Tail(q)],
             task' = [task EXCEPT ![w] = Head(q)], pc'[w] = "callback"
      PROVE  Once'
  <2>1. /\ q \in Seq(TasksOf(s))
        /\ \A i, j \in DOMAIN q : q[i] = q[j] => i = j
        /\ \A i \in DOMAIN q : \/ \E k \in DOMAIN immediate[s] : immediate[s][k] = q[i]
                               \/ \E d \in Expired(s) : d.task = q[i]
    <3>1. q = LineUp(s, o)
      BY <1>5 DEF LineUp
    <3> QED BY <3>1, LineOnce
  <2>2. PICK h \in Tasks : h = Head(q) /\ SequenceOf[h] = s /\ h = q[1] /\ 1 \in DOMAIN q
    <3>1. Head(q) = q[1] /\ 1 \in DOMAIN q /\ q[1] \in TasksOf(s)
      BY <1>5, <2>1
    <3> QED BY <3>1 DEF TasksOf
  <2>3. /\ \A i \in DOMAIN Tail(q) : i + 1 \in DOMAIN q /\ i + 1 # 1 /\ Tail(q)[i] = q[i + 1]
        /\ \A i, j \in DOMAIN Tail(q) : i + 1 = j + 1 => i = j
    BY <1>5, <2>1
  <2>4. /\ immediate'[s] = Tail(q) /\ \A r \in Seqs : r # s => immediate'[r] = immediate[r]
        /\ task'[w] = h /\ \A v \in Workers : v # w => task'[v] = task[v]
    BY <1>5, <2>2 DEF TypeOK
  <2> DEFINE Moved(u) == SequenceOf[u] = s /\ \E d \in Expired(s) : d.task = u
  <2>5. \A u \in Tasks : Moved(u) => Deferred(u) /\ ~Deferred(u)'
    <3> SUFFICES ASSUME NEW u \in Tasks, Moved(u) PROVE Deferred(u) /\ ~Deferred(u)'
      OBVIOUS
    <3>1. PICK d \in delayed[s] : d \in Expired(s) /\ d.task = u /\ SequenceOf[u] = s
      BY DEF Expired
    <3>2. \A e \in delayed[s] : e.task = u => e = d
      BY <3>1 DEF Once, Single
    <3> QED BY <1>2, <3>1, <3>2 DEF Deferred
  <2>6. \A i \in DOMAIN q : q[i] \in Tasks /\ SequenceOf[q[i]] = s
    BY <2>1 DEF TasksOf
  <2>7. \A i \in DOMAIN q : Lined(q[i]) \/ Moved(q[i])
    BY <2>1, <2>6 DEF Lined
  <2>8. \A u \in Tasks : Lined(u)' => (Lined(u) \/ Moved(u)) /\ u # h
    <3> SUFFICES ASSUME NEW u \in Tasks, Lined(u)' PROVE (Lined(u) \/ Moved(u)) /\ u # h
      OBVIOUS
    <3>1. CASE SequenceOf[u] = s
      <4>1. PICK i \in DOMAIN Tail(q) : Tail(q)[i] = u
        BY <2>4, <3>1 DEF Lined
      <4>2. u = q[i + 1] /\ i + 1 \in DOMAIN q /\ i + 1 # 1
        BY <2>3, <4>1
      <4> QED BY <2>1, <2>2, <2>7, <4>2
    <3>2. CASE SequenceOf[u] # s
      BY <2>2, <2>4, <3>2, ConstantsAssumption DEF Lined
    <3> QED BY <3>1, <3>2
  <2>9. \A u \in Tasks : Started(u)' => Started(u) \/ u = h
    BY <1>1, <2>4 DEF Started
  <2>10. (Lined(h) \/ Moved(h)) /\ h \notin finished
    BY <2>2, <2>5, <2>7 DEF Once, Separate, Started
  <2>11. Separate'
    <3> SUFFICES ASSUME NEW u \in Tasks
                 PROVE  /\ Lined(u)' => ~Deferred(u)' /\ ~Inserted(u)' /\ ~Started(u)'
                        /\ Deferred(u)' => ~Inserted(u)' /\ ~Started(u)'
                        /\ Inserted(u)' => ~Started(u)'
                        /\ Lined(u)' \/ Deferred(u)' \/ Inserted(u)' \/ Started(u)'
                              => u \in posted
      BY <1>1 DEF Separate
    <3> HIDE DEF Moved
    <3>1. \A x \in {u, h} :
             /\ Lined(x) => ~Deferred(x) /\ ~Inserted(x) /\ ~Started(x)
             /\ Deferred(x) => ~Inserted(x) /\ ~Started(x)
             /\ Inserted(x) => ~Started(x)
             /\ Lined(x) \/ Deferred(x) \/ Inserted(x) \/ Started(x) => x \in posted
      BY DEF Once, Separate
    <3> QED BY <1>2, <2>5, <2>8, <2>9, <2>10, <3>1
  <2>12. Single'
    <3>1. ASSUME NEW r \in Seqs, NEW i \in DOMAIN immediate'[r],
                 NEW j \in DOMAIN immediate'[r], immediate'[r][i] = immediate'[r][j]
          PROVE  i = j
      <4>1. CASE r = s
        <5>1. i \in DOMAIN Tail(q) /\ j \in DOMAIN Tail(q) /\ Tail(q)[i] = Tail(q)[j]
          BY <2>4, <3>1, <4>1
        <5>2. i + 1 \in DOMAIN q /\ j + 1 \in DOMAIN q /\ q[i + 1] = q[j + 1]
          BY <2>3, <5>1
        <5>3. i + 1 = j + 1
          BY <2>1, <5>2
        <5> QED BY <2>3, <5>1, <5>3
      <4>2. CASE r # s
        BY <2>4, <3>1, <4>2 DEF Once, Single
      <4> QED BY <4>1, <4>2
    <3>2. \A r \in Seqs : \A d, e \in delayed'[r] : d.task = e.task => d = e
      BY <1>2 DEF Once, Single
    <3>3. \A v, u \in Threads : pc'[v] = "insert" /\ pc'[u] = "insert"
                                /\ out'[v].task = out'[u].task => v = u
      BY <1>1 DEF Once, Single
    <3> QED BY <3>1, <3>2, <3>3 DEF Single
  <2>13. Ran'
    BY <1>1, <1>5, <2>4, <2>10 DEF Once, Ran, Threads
  <2> QED BY <1>3, <2>11, <2>12, <2>13 DEF Once
<1> QED
  <2>1. PICK o \in FlushOrders(Expired(s)) :
          LET q == immediate[s] \o [i \in DOMAIN o |-> o[i].task] IN
          \/ Goto(w, "clear") /\ UNCHANGED <<immediate, task>>
          \/ /\ q # <<>>
             /\ immediate' = [immediate EXCEPT ![s] = Tail(q)]
             /\ task' = [task EXCEPT ![w] = Head(q)]
             /\ Goto(w, "callback")
    BY <1>0 DEF TakeTask
  <2>2. /\ Goto(w, "clear") => pc'[w] = "clear"
        /\ Goto(w, "callback") => pc'[w] = "callback"
    BY <1>1 DEF Goto, TypeOK
  <2> QED BY <1>4, <1>5, <2>1, <2>2

LEMMA CallbackOnce ==
    ASSUME Typed, Exclusive, Once, NEW w \in Workers, Callback(w)
    PROVE  Once'
<1> USE DEF Typed
<1>0. PICK t \in Tasks : t = task[w] /\ t # NoTask
  BY ConstantsAssumption DEF Callback, Control, WorkerControl, Holding, TypeOK
<1>1. /\ finished' = finished \cup {t} /\ pc[w] = "callback"
      /\ UNCHANGED <<immediate, delayed, task, out, now, posted>>
      /\ pc'[w] \in {"clear", "reply"} /\ w \in Threads
      /\ \A v \in Threads : v # w => pc'[v] = pc[v]
  BY <1>0 DEF Callback, Goto, TypeOK, seqVars, Threads
<1>2. /\ \A u \in Tasks : Lined(u)' = Lined(u) /\ Deferred(u)' = Deferred(u)
      /\ \A u \in Tasks : Inserted(u)' => Inserted(u)
      /\ \A u \in Tasks : Started(u)' = Started(u)
  BY <1>0, <1>1 DEF Lined, Deferred, Inserted, Started
<1>3. Separate'
  BY <1>1, <1>2 DEF Once, Separate
<1>4. Single' /\ Dated'
  BY <1>1 DEF Once, Single, Dated
<1>5. \A v \in Workers : task[v] = t => v = w
  BY <1>0, ExclusiveAlone DEF MutualExclusion
<1>6. Ran'
  BY <1>0, <1>1, <1>5 DEF Once, Ran, Threads
<1>7. ReplyOnce'
  <2>1. t \notin finished /\ Reply[t] \notin posted
    BY <1>0, <1>1 DEF Once, Ran, ReplyOnce
  <2>2. \A v \in Workers : pc'[v] = "reply" => pc[v] = "reply" \/ v = w
    BY <1>1 DEF Threads
  <2> QED BY <1>0, <1>1, <2>1, <2>2 DEF Once, ReplyOnce
<1> QED BY <1>3, <1>4, <1>6, <1>7 DEF Once

LEMMA ReleaseSequenceOnce ==
    ASSUME Typed, Once, NEW w \in Workers, ReleaseSequence(w)
    PROVE  Once'
<1> USE DEF Typed
<1>1. /\ UNCHANGED <<immediate, delayed, out, now, posted, finished>>
      /\ pc[w] = "clear" /\ pc'[w] = "check" /\ w \in Threads /\ task'[w] = NoTask
      /\ \A v \in Threads : v # w => pc'[v] = pc[v]
      /\ \A v \in Workers : v # w => task'[v] = task[v]
  BY DEF ReleaseSequence, Goto, TypeOK, seqVars, Threads
<1>2. /\ \A u \in Tasks : Lined(u)' = Lined(u) /\ Deferred(u)' = Deferred(u)
      /\ \A u \in Tasks : Inserted(u)' => Inserted(u)
      /\ \A u \in Tasks : Started(u)' => Started(u)
  BY <1>1, ConstantsAssumption DEF Lined, Deferred, Inserted, Started
<1>3. Separate'
  BY <1>1, <1>2 DEF Once, Separate
<1>4. Single' /\ Dated'
  BY <1>1 DEF Once, Single, Dated
<1>5. Ran' /\ ReplyOnce'
  BY <1>1 DEF Once, Ran, ReplyOnce, Threads
<1> QED BY <1>3, <1>4, <1>5 DEF Once

LEMMA NextOnce == Typed /\ Exclusive /\ Once /\ [Next]_vars => Once'
<1> SUFFICES ASSUME Typed, Exclusive, Once, [Next]_vars PROVE Once'
  OBVIOUS
<1> USE ConstantsAssumption DEF Typed
<1>0. ASSUME Aside PROVE Once'
  BY <1>0, AsideOnce
<1>1. ASSUME NEW th \in Threads, NEW t \in Tasks, PostTask(th, t), t \notin posted,
             pc[th] \in {"idle", "reply"},
             \A u \in Tasks : Reply[u] = t => th \in Workers /\ pc[th] = "reply" /\ task[th] = u
      PROVE  Once'
  BY <1>1, PushTaskOnce, ReadClockOnce DEF PostTask
<1>2. ASSUME NEW c \in Clients, NEW t \in Tasks, Post(c, t) PROVE Once'
  <2>1. \A u \in Tasks : Reply[u] # t
    BY <1>2 DEF Post, Replies
  <2> QED BY <1>1, <1>2, <2>1 DEF Post, Threads
<1>3. ASSUME NEW w \in Workers, PostReply(w) PROVE Once'
  <2>1. task[w] \in Tasks /\ Reply[task[w]] \in Tasks /\ pc[w] = "reply" /\ w \in Threads
    BY <1>3 DEF PostReply, Control, WorkerControl, Holding, Threads, TypeOK
  <2>2. Reply[task[w]] \notin posted
    BY <2>1 DEF Once, ReplyOnce
  <2>3. \A u \in Tasks : Reply[u] = Reply[task[w]] => task[w] = u
    BY <2>1, ReplyAssumption
  <2> QED BY <1>1, <1>3, <2>1, <2>2, <2>3 DEF PostReply
<1>4. ASSUME NEW th \in Threads, HandOver(th) PROVE Once'
  <2>1. Return(th) \notin {"insert", "callback", "reply"}
    BY DEF Return
  <2>2. ASSUME AddSequence(th) \/ PushTaskSource(th) PROVE Aside
    BY <2>2 DEF AddSequence, PushTaskSource, Goto, Aside, TypeOK, seqVars, dtmVars, Threads
  <2>3. ASSUME NotifyTimer(th) PROVE Aside
    BY <2>1, <2>3 DEF NotifyTimer, WakeTimer, Aside, TypeOK, seqVars, Threads
  <2>4. ASSUME NotifyOne(th) PROVE Aside
    <3>1. /\ UNCHANGED <<immediate, delayed, task, out, posted, finished, now>>
          /\ now \in Nat /\ pc[th] = "notify"
      BY <2>4 DEF NotifyOne, TypeOK, seqVars
    <3>2. \A v \in Threads : \/ pc'[v] = pc[v]
                             \/ pc[v] = "notify" /\ pc'[v] = Return(th)
                             \/ pc[v] = "waiting" /\ pc'[v] = "get_work"
      BY <2>4, <3>1 DEF NotifyOne, Waiting, Goto, TypeOK
    <3> QED BY <2>1, <3>1, <3>2 DEF Aside, Threads
  <2> QED BY <1>0, <1>4, <2>2, <2>3, <2>4, PushDelayedTaskOnce DEF HandOver
<1>5. ASSUME NEW w \in Workers, GetWork(w) \/ WillRunTask(w) \/ CheckMore(w)
                                \/ Panic(w) \/ SpuriousWake(w)
      PROVE  Aside
  BY <1>5 DEF GetWork, WillRunTask, CheckMore, Panic, SpuriousWake, Goto, Aside, TypeOK,
              seqVars, Threads
<1>6. ASSUME NEW w \in Workers, WorkerStep(w) PROVE Once'
  BY <1>0, <1>3, <1>5, <1>6, TakeTaskOnce, CallbackOnce, ReleaseSequenceOnce
     DEF WorkerStep, DidProcessTask
<1>7. ASSUME TimerLoop PROVE Aside
  <2>1. /\ UNCHANGED <<immediate, delayed, task, posted, finished, now>>
        /\ \E to \in {"exited", "push", "timer_wait"} : pc' = [pc EXCEPT ![Timer] = to]
        /\ \/ out' = out
           \/ \E handed : out' = [out EXCEPT ![Timer] = handed]
    BY <1>7 DEF TimerLoop, WaitUntil, Goto, seqVars
  <2>2. /\ now \in Nat /\ pc \in [Threads -> PCs] /\ out \in [Threads -> Handovers]
        /\ Timer \in Threads
    BY DEF TypeOK, Threads
  <2>3. /\ \A v \in Threads : v # Timer => pc'[v] = pc[v] /\ out'[v] = out[v]
        /\ pc'[Timer] \in {"exited", "push", "timer_wait"}
    BY <2>1, <2>2
  <2>4. \A w \in Workers : w \in Threads /\ w # Timer
    BY ConstantsAssumption DEF Threads
  <2>5. \A th \in Threads : pc'[th] = "insert" => pc[th] = "insert" /\ out'[th] = out[th]
    BY <2>3
  <2> QED BY <2>1, <2>2, <2>3, <2>4, <2>5 DEF Aside
<1>8. ASSUME TimerTimeout \/ TimerSpuriousWake PROVE Aside
  <2>1. /\ UNCHANGED <<immediate, delayed, task, out, posted, finished, now>>
        /\ pc' = [pc EXCEPT ![Timer] = "timer_loop"]
    BY <1>8 DEF TimerTimeout, TimerSpuriousWake, TimerWakes, Goto, seqVars
  <2>2. /\ now \in Nat /\ pc \in [Threads -> PCs]
        /\ \A v \in Threads : v # Timer => pc'[v] = pc[v]
        /\ pc'[Timer] = "timer_loop"
    BY <2>1 DEF TypeOK, Threads
  <2>3. \A w \in Workers : w \in Threads /\ w # Timer
    BY ConstantsAssumption DEF Threads
  <2>4. \A th \in Threads : pc'[th] = "insert" => pc[th] = "insert" /\ out'[th] = out[th]
    BY <2>1, <2>2
  <2> QED BY <2>1, <2>2, <2>3, <2>4 DEF Aside
<1>9. ASSUME Shutdown PROVE Aside
  <2>1. CASE JoinAll \/ JoinWorkers \/ StopTimer \/ JoinTimer
    BY <2>1 DEF JoinAll, JoinWorkers, StopTimer, JoinTimer, OwnerStep, Goto, Aside,
                TypeOK, seqVars, Threads
  <2>2. CASE NotifyAll
    BY <2>2 DEF NotifyAll, Waiting, Aside, TypeOK, seqVars, Threads
  <2>3. CASE NotifyStop
    BY <2>3 DEF NotifyStop, WakeTimer, Aside, TypeOK, seqVars, Threads
  <2> QED BY <1>9, <2>1, <2>2, <2>3 DEF Shutdown
<1>10. ASSUME Tick PROVE Aside
  <2>1. /\ UNCHANGED <<immediate, delayed, task, out, pc, posted, finished>>
        /\ now' = now + 1 /\ now \in Nat
    BY <1>10 DEF Tick, TypeOK, seqVars
  <2>2. now' \in Nat /\ now <= now'
    BY <2>1
  <2> QED BY <2>1, <2>2 DEF Aside
<1>11. ASSUME UNCHANGED vars PROVE Aside
  BY <1>11 DEF vars, Aside, TypeOK
<1> QED BY <1>0, <1>2, <1>4, <1>5, <1>6, <1>7, <1>8, <1>9, <1>10, <1>11 DEF Next, Stopped
-----------------------------------------------------------------------------
(* The thread group implements SequencedRunner *)

\* The refinement mapping of Runner, named part by part.
Dropped(d) == [task |-> d.task, ready |-> d.ready]
Later == [s \in Seqs |-> {Dropped(d) : d \in delayed[s]}]
Running == [s \in Seqs |-> Held(s)]
EverStarted == finished \cup UNION {Held(s) : s \in Seqs}

Promise == INSTANCE SequencedRunner WITH
    fifo <- immediate, later <- Later, running <- Running, started <- EverStarted,
    clock <- now

LEMMA HeldBy ==
    ASSUME Typed
    PROVE  /\ \A s \in Seqs : \A t : t \in Held(s) <=>
                 \E w \in Workers : src[w] = s /\ task[w] = t /\ t # NoTask
           /\ \A t \in Tasks : t \in EverStarted <=> Started(t)
           /\ EverStarted \subseteq Tasks
<1> USE ConstantsAssumption DEF Typed, TypeOK
<1>1. \A s \in Seqs : \A t : t \in Held(s) <=>
          \E w \in Workers : src[w] = s /\ task[w] = t /\ t # NoTask
  BY DEF Held
<1>2. \A t : t \in EverStarted <=> t \in finished \/ \E s \in Seqs : t \in Held(s)
  BY DEF EverStarted
<1>3. \A w \in Workers : task[w] # NoTask => src[w] \in Seqs /\ task[w] \in Tasks
  BY DEF Control, WorkerControl
<1>4. ASSUME NEW t \in Tasks
      PROVE  (\E s \in Seqs : t \in Held(s)) <=> \E w \in Workers : task[w] = t
  <2>1. ASSUME NEW w \in Workers, task[w] = t PROVE \E s \in Seqs : t \in Held(s)
    <3>1. t # NoTask /\ src[w] \in Seqs
      BY <1>3, <2>1
    <3> QED BY <1>1, <2>1, <3>1
  <2> QED BY <1>1, <2>1
<1>5. EverStarted \subseteq Tasks
  BY <1>1, <1>2, <1>3
<1> QED BY <1>1, <1>2, <1>4, <1>5 DEF Started

\* Steps between the threads of the pool that a caller does not see.
Unseen ==
    /\ UNCHANGED <<immediate, delayed, now, finished, task>>
    /\ \A w \in Workers : task[w] # NoTask => src'[w] = src[w]

LEMMA UnseenStutters == Unseen => UNCHANGED Promise!vars
<1> SUFFICES ASSUME Unseen
             PROVE  /\ UNCHANGED <<immediate, now>> /\ Later' = Later
                    /\ Running' = Running /\ EverStarted' = EverStarted
  BY DEF Promise!vars
<1>1. Later' = Later
  BY DEF Unseen, Later
<1>2. \A s \in Seqs : {v \in Workers : src'[v] = s /\ task'[v] # NoTask}
                      = {v \in Workers : src[v] = s /\ task[v] # NoTask}
  BY DEF Unseen
<1>3. \A s \in Seqs : Held(s)' = Held(s)
  BY <1>2 DEF Held, Unseen
<1> QED BY <1>1, <1>3 DEF Running, EverStarted, Unseen

LEMMA FreshTask ==
    ASSUME Typed, NEW t \in Tasks, ~Lined(t), ~Deferred(t), ~Started(t)
    PROVE  Promise!Fresh(t)
<1>1. SequenceOf[t] \in Seqs /\ t \notin EverStarted
  BY HeldBy, ConstantsAssumption
<1>2. \A d \in Later[SequenceOf[t]] : d.task # t
  BY <1>1 DEF Later, Dropped, Deferred
<1> QED BY <1>1, <1>2 DEF Promise!Fresh, Lined

LEMMA PushTaskPosts ==
    ASSUME Typed, Once, NEW th \in Threads, NEW t \in Tasks \ Delayed, PushTask(th, t),
           t \notin posted
    PROVE  Promise!Post(t)
<1>1. Promise!Fresh(t)
  BY FreshTask DEF Once, Separate
<1>2. immediate' = [immediate EXCEPT ![SequenceOf[t]] = Append(@, t)]
  BY DEF PushTask
<1>3. UNCHANGED <<Later, Running, EverStarted, now>>
  BY DEF PushTask, Later, Running, EverStarted, Held
<1> QED BY <1>1, <1>2, <1>3 DEF Promise!Post

LEMMA PushDelayedTaskPosts ==
    ASSUME Typed, Once, NEW th \in Threads, PushDelayedTask(th)
    PROVE  \E t \in Tasks : Promise!PostDelayed(t)
<1> USE DEF Typed
<1>0. PICK s \in Seqs, t \in Tasks, r \in Nat :
         s = out[th].seq /\ t = out[th].task /\ r = out[th].ready /\ SequenceOf[t] = s
  BY DEF PushDelayedTask, TypeOK, Control, Handovers, TasksOf
<1>1. PICK e : /\ delayed' = [delayed EXCEPT ![s] = @ \cup {e}]
               /\ Dropped(e) = [task |-> t, ready |-> r]
  <2> DEFINE d == [task |-> t, ready |-> r, num |-> nextNum[s]]
  <2>1. delayed' = [delayed EXCEPT ![s] = @ \cup {d}]
    BY <1>0 DEF PushDelayedTask
  <2>2. Dropped(d) = [task |-> t, ready |-> r]
    BY DEF Dropped
  <2> QED BY <2>1, <2>2
<1>2. UNCHANGED <<immediate, Running, EverStarted, now>>
  BY DEF PushDelayedTask, Running, EverStarted, Held
<1>3. Later' = [Later EXCEPT ![s] = @ \cup {[task |-> t, ready |-> r]}]
  <2>1. \A q \in Seqs : delayed'[q] = IF q = s THEN delayed[s] \cup {e} ELSE delayed[q]
    BY <1>1 DEF TypeOK
  <2>2. \A q \in Seqs : {Dropped(d) : d \in delayed'[q]} =
           IF q = s THEN {Dropped(d) : d \in delayed[s]} \cup {Dropped(e)}
                    ELSE {Dropped(d) : d \in delayed[q]}
    BY <2>1
  <2> QED BY <1>1, <2>2 DEF Later
<1>4. Promise!Fresh(t)
  <2>1. Inserted(t)
    BY <1>0 DEF PushDelayedTask, Inserted
  <2> QED BY <2>1, FreshTask DEF Once, Separate
<1>5. t \in Delayed /\ r \in Delay[t] .. now + Delay[t]
  BY <1>0 DEF PushDelayedTask, Once, Dated
<1>6. Promise!PostDelayed(t)
  BY <1>0, <1>2, <1>3, <1>4, <1>5 DEF Promise!PostDelayed
<1> QED BY <1>6

LEMMA CallbackStutters ==
    ASSUME Typed, NEW w \in Workers, Callback(w)
    PROVE  UNCHANGED Promise!vars
<1>1. /\ UNCHANGED <<immediate, delayed, now, src, task>>
      /\ finished' = finished \cup {task[w]} /\ pc[w] = "callback"
  BY DEF Callback, seqVars
<1>2. task[w] \in Tasks
  BY <1>1 DEF Typed, TypeOK, Control, WorkerControl, Holding
<1>3. task[w] \in EverStarted
  BY <1>2, HeldBy DEF Started
<1>4. UNCHANGED <<Later, Running>> /\ \A s \in Seqs : Held(s)' = Held(s)
  BY <1>1 DEF Later, Running, Held
<1>5. EverStarted' = EverStarted
  BY <1>1, <1>3, <1>4 DEF EverStarted
<1> QED BY <1>1, <1>4, <1>5 DEF Promise!vars

LEMMA ReleaseSequenceFinishes ==
    ASSUME Typed, Exclusive, Once, NEW w \in Workers, ReleaseSequence(w)
    PROVE  (\E s \in Seqs : Promise!Finish(s)) \/ UNCHANGED Promise!vars
<1> USE DEF Typed
<1>0. PICK s \in Seqs : s = src[w]
  BY DEF ReleaseSequence, Control, WorkerControl
<1>1. /\ UNCHANGED <<immediate, delayed, now, src, finished>>
      /\ task' = [task EXCEPT ![w] = NoTask] /\ pc[w] = "clear"
  BY DEF ReleaseSequence, seqVars
<1>2. CASE task[w] = NoTask
  <2>1. Unseen
    BY <1>1, <1>2 DEF Unseen, TypeOK
  <2> QED BY <2>1, UnseenStutters
<1>3. CASE task[w] # NoTask
  <2>0. PICK t \in Tasks : t = task[w] /\ SequenceOf[t] = s /\ t \in finished
    BY <1>0, <1>1, <1>3 DEF TypeOK, Control, WorkerControl, Once, Ran
  <2>1. \A v \in Workers : task[v] # NoTask /\ src[v] = s => v = w
    BY <1>0, <1>3, ExclusiveAlone DEF MutualExclusion, Control, WorkerControl
  <2>2. /\ \A v \in Workers : v # w => task'[v] = task[v]
        /\ task'[w] = NoTask
    BY <1>1 DEF TypeOK
  <2>3. Held(s) # {} /\ Held(s)' = {}
    BY <1>0, <1>1, <1>3, <2>1, <2>2 DEF Held
  <2>4. ASSUME NEW q \in Seqs, q # s PROVE Held(q)' = Held(q)
    <3>1. {v \in Workers : src'[v] = q /\ task'[v] # NoTask}
          = {v \in Workers : src[v] = q /\ task[v] # NoTask}
      BY <1>0, <1>1, <2>2, <2>4
    <3>2. \A v \in Workers : src[v] = q => task'[v] = task[v]
      BY <1>0, <2>2, <2>4
    <3> QED BY <3>1, <3>2 DEF Held
  <2>5. Running' = [Running EXCEPT ![s] = {}] /\ Running[s] # {}
    BY <2>3, <2>4 DEF Running
  <2>6. EverStarted' = EverStarted
    <3>1. Held(s) = {t}
      BY <1>0, <1>3, <2>0, <2>1 DEF Held
    <3> QED BY <1>1, <2>0, <2>3, <2>4, <3>1 DEF EverStarted
  <2>7. UNCHANGED <<immediate, Later, now>>
    BY <1>1 DEF Later
  <2> QED BY <2>5, <2>6, <2>7 DEF Promise!Finish
<1> QED BY <1>2, <1>3

\* Each instance has a copy of Cardinality of its own.
LEMMA OneCardinality ==
    /\ \A S : Promise!Cardinality(S) = Cardinality(S)
    /\ \A S : Runner!Cardinality(S) = Cardinality(S)
<1>1. ASSUME NEW S PROVE Promise!Cardinality(S) = Cardinality(S)
  BY DEF Promise!Cardinality, Cardinality
<1>2. ASSUME NEW S PROVE Runner!Cardinality(S) = Cardinality(S)
  BY DEF Runner!Cardinality, Cardinality
<1> QED BY <1>1, <1>2

\* The expired entries of delayed_queue are the due tasks of the promise, as many
\* and in the same order.
LEMMA ExpiredAreDue ==
    ASSUME TypeOK, Once, NEW s \in Seqs
    PROVE  /\ Promise!Due(s) = {Dropped(d) : d \in Expired(s)}
           /\ Cardinality(Promise!Due(s)) = Cardinality(Expired(s))
           /\ {Dropped(d) : d \in delayed[s] \ Expired(s)} = Later[s] \ Promise!Due(s)
<1>1. \A d : Dropped(d).ready = d.ready /\ Dropped(d).task = d.task
  BY DEF Dropped
<1>2. Later[s] = {Dropped(d) : d \in delayed[s]}
  BY DEF Later
<1>3. Promise!Due(s) = {Dropped(d) : d \in Expired(s)}
  BY <1>1, <1>2 DEF Promise!Due, Expired
<1>4. {Dropped(d) : d \in delayed[s] \ Expired(s)} = Later[s] \ Promise!Due(s)
  BY <1>1, <1>2 DEF Promise!Due, Expired
<1> DEFINE f == [d \in Expired(s) |-> Dropped(d)]
<1>5. f \in Surjection(Expired(s), Promise!Due(s))
  BY <1>3, Fun_IsSurj
<1>6. \A d, e \in Expired(s) : f[d] = f[e] => d = e
  <2>1. \A d \in Expired(s) : d \in delayed[s] /\ f[d].task = d.task
    BY <1>1 DEF Expired
  <2> QED BY <2>1 DEF Once, Single
<1>7. f \in Injection(Expired(s), Promise!Due(s))
  <2>1. f \in [Expired(s) -> Promise!Due(s)]
    BY <1>3
  <2> QED BY <1>6, <2>1, Fun_IsInj
<1>8. IsFiniteSet(Expired(s))
  BY FS_Subset DEF TypeOK, Expired
<1>9. Cardinality(Promise!Due(s)) = Cardinality(Expired(s))
  BY <1>5, <1>7, <1>8, FS_Surjection
<1> QED BY <1>3, <1>4, <1>9

LEMMA FlushInOrder ==
    ASSUME TypeOK, Once, NEW s \in Seqs, NEW o \in FlushOrders(Expired(s)), NEW p,
           p = [i \in DOMAIN o |-> Dropped(o[i])]
    PROVE  /\ p \in Promise!InOrder(Promise!Due(s))
           /\ [i \in DOMAIN p |-> p[i].task] = [i \in DOMAIN o |-> o[i].task]
<1>1. /\ DOMAIN o = 1 .. Cardinality(Expired(s)) /\ Cardinality(Expired(s)) \in Nat
      /\ \A i \in DOMAIN o : o[i] \in Expired(s)
      /\ \A i, j \in DOMAIN o : o[i].task = o[j].task => i = j
      /\ \A i, j \in DOMAIN o : i < j => Before(o[i], o[j])
  BY FlushOnce DEF FlushOrders
<1>2. /\ Promise!Due(s) = {Dropped(d) : d \in Expired(s)}
      /\ Cardinality(Promise!Due(s)) = Cardinality(Expired(s))
  BY ExpiredAreDue
<1>3. /\ DOMAIN p = DOMAIN o
      /\ \A i \in DOMAIN o : p[i] = Dropped(o[i])
      /\ \A i \in DOMAIN o : p[i].task = o[i].task /\ p[i].ready = o[i].ready
  BY DEF Dropped
<1>4. p \in [1 .. Cardinality(Promise!Due(s)) -> Promise!Due(s)]
  <2>1. \A i \in DOMAIN o : p[i] \in Promise!Due(s)
    BY <1>1, <1>2, <1>3
  <2> QED BY <1>1, <1>2, <2>1
<1>5. ASSUME NEW i \in DOMAIN p, NEW j \in DOMAIN p, i < j
      PROVE  p[i] # p[j] /\ p[i].ready <= p[j].ready
  <2>1. p[i].task # p[j].task
    BY <1>1, <1>3, <1>5
  <2>2. o[i] \in delayed[s] /\ o[j] \in delayed[s]
    BY <1>1, <1>3 DEF Expired
  <2>3. PICK a \in Nat, b \in Nat : a = o[i].ready /\ b = o[j].ready
    BY <2>2 DEF TypeOK, DelayedTasks
  <2>4. a < b \/ a = b
    BY <1>1, <1>3, <1>5, <2>3 DEF Before
  <2>5. a <= b
    BY <2>4
  <2>6. p[i].ready = a /\ p[j].ready = b
    BY <1>3, <2>3
  <2>7. p[i].ready <= p[j].ready
    BY <2>5, <2>6
  <2>8. p[i] # p[j]
    BY <2>1
  <2> QED BY <2>7, <2>8
<1>6. p \in Promise!InOrder(Promise!Due(s))
  <2>1. PICK D : D = Promise!Due(s)
    OBVIOUS
  <2>2. p \in Promise!InOrder(D)
    BY <1>4, <1>5, <2>1, OneCardinality DEF Promise!InOrder
  <2> QED BY <2>1, <2>2
<1>7. [i \in DOMAIN p |-> p[i].task] = [i \in DOMAIN o |-> o[i].task]
  BY <1>3
<1> QED BY <1>6, <1>7

LEMMA TakeTaskStarts ==
    ASSUME Typed, Exclusive, Once, NEW w \in Workers, TakeTask(w)
    PROVE  (\E s \in Seqs : Promise!Start(s)) \/ UNCHANGED Promise!vars
<1> USE DEF Typed
<1>0. PICK s \in Seqs : s = src[w]
  BY DEF TakeTask, Control, WorkerControl, Popped
<1>1. /\ delayed' = [delayed EXCEPT ![s] = @ \ Expired(s)]
      /\ UNCHANGED <<now, finished, src>>
      /\ pc[w] = "take_task" /\ task[w] = NoTask
  BY <1>0 DEF TakeTask, Control, WorkerControl, Popped
<1>2. PICK o \in FlushOrders(Expired(s)) :
        LET q == immediate[s] \o [i \in DOMAIN o |-> o[i].task] IN
        \/ q = <<>> /\ UNCHANGED <<immediate, task>>
        \/ /\ q # <<>>
           /\ immediate' = [immediate EXCEPT ![s] = Tail(q)]
           /\ task' = [task EXCEPT ![w] = Head(q)]
  BY <1>0 DEF TakeTask
<1>3. PICK q : q = LineUp(s, o)
  OBVIOUS
<1>4. \/ q = <<>> /\ UNCHANGED <<immediate, task>>
      \/ /\ q # <<>>
         /\ immediate' = [immediate EXCEPT ![s] = Tail(q)]
         /\ task' = [task EXCEPT ![w] = Head(q)]
  BY <1>2, <1>3 DEF LineUp
<1>5. CASE q = <<>> /\ UNCHANGED <<immediate, task>>
  <2>1. Expired(s) = {}
    <3>1. /\ [i \in DOMAIN o |-> o[i].task] \in Seq(TasksOf(s))
          /\ Len([i \in DOMAIN o |-> o[i].task]) = Cardinality(Expired(s))
          /\ immediate[s] \in Seq(TasksOf(s))
      BY FlushedTasks DEF TypeOK
    <3> DEFINE f == [i \in DOMAIN o |-> o[i].task]
               S == TasksOf(s)
    <3>2. Len(immediate[s] \o f) = Len(immediate[s]) + Len(f)
      <4> HIDE DEF f, S
      <4> QED BY <3>1, ConcatProperties DEF f, S
    <3>3. Len(immediate[s]) \in Nat /\ Len(f) \in Nat /\ Len(immediate[s] \o f) = 0
      BY <1>3, <1>5, <3>1 DEF LineUp
    <3>4. Cardinality(Expired(s)) = 0
      BY <3>1, <3>2, <3>3
    <3>5. IsFiniteSet(Expired(s))
      BY FS_Subset DEF TypeOK, Expired
    <3> QED BY <3>4, <3>5, FS_EmptySet
  <2>2. delayed' = delayed
    BY <1>1, <2>1 DEF TypeOK
  <2>3. Unseen
    BY <1>1, <1>5, <2>2 DEF Unseen
  <2> QED BY <2>3, UnseenStutters
<1>6. CASE /\ q # <<>>
           /\ immediate' = [immediate EXCEPT ![s] = Tail(q)]
           /\ task' = [task EXCEPT ![w] = Head(q)]
  <2>1. PICK h \in Tasks : h = Head(q)
    <3>1. q \in Seq(TasksOf(s))
      BY <1>3, LineOnce
    <3>2. Head(q) \in TasksOf(s)
      BY <1>6, <3>1
    <3> QED BY <3>2 DEF TasksOf
  <2>2. /\ h # NoTask /\ task'[w] = h
        /\ \A v \in Workers : v # w => task'[v] = task[v]
    BY <1>6, <2>1, ConstantsAssumption DEF TypeOK
  <2>3. Owns(w, s)
    BY <1>0, <1>1 DEF Owns
  <2>4. \A v \in Workers : src[v] = s => task[v] = NoTask
    <3>1. ASSUME NEW v \in Workers, src[v] = s, task[v] # NoTask PROVE Owns(v, s)
      BY <3>1 DEF Owns, Control, WorkerControl, Popped
    <3> QED BY <1>1, <2>3, <3>1 DEF Exclusive, OneOwner
  <2>5. Held(s) = {} /\ Held(s)' = {h}
    BY <1>0, <1>1, <2>2, <2>4 DEF Held
  <2>6. ASSUME NEW r \in Seqs, r # s PROVE Held(r)' = Held(r)
    <3>1. {v \in Workers : src'[v] = r /\ task'[v] # NoTask}
          = {v \in Workers : src[v] = r /\ task[v] # NoTask}
      BY <1>0, <1>1, <2>2, <2>6
    <3>2. \A v \in Workers : src[v] = r => task'[v] = task[v]
      BY <1>0, <2>2, <2>6
    <3> QED BY <3>1, <3>2 DEF Held
  <2>7. Running[s] = {} /\ Running' = [Running EXCEPT ![s] = {h}]
    BY <2>5, <2>6 DEF Running
  <2>8. EverStarted' = EverStarted \cup {h}
    BY <1>1, <2>5, <2>6 DEF EverStarted
  <2>9. Later' = [Later EXCEPT ![s] = @ \ Promise!Due(s)]
    <3>1. \A r \in Seqs : delayed'[r] = IF r = s THEN delayed[s] \ Expired(s) ELSE delayed[r]
      BY <1>1 DEF TypeOK
    <3>2. \A r \in Seqs : {Dropped(d) : d \in delayed'[r]} =
             IF r = s THEN Later[s] \ Promise!Due(s) ELSE {Dropped(d) : d \in delayed[r]}
      BY <3>1, ExpiredAreDue
    <3> QED BY <3>2 DEF Later
  <2>10. PICK p \in Promise!InOrder(Promise!Due(s)) :
            q = immediate[s] \o [i \in DOMAIN p |-> p[i].task]
    <3>1. PICK p : p = [i \in DOMAIN o |-> Dropped(o[i])]
      OBVIOUS
    <3>2. /\ p \in Promise!InOrder(Promise!Due(s))
          /\ [i \in DOMAIN p |-> p[i].task] = [i \in DOMAIN o |-> o[i].task]
      BY <3>1, FlushInOrder
    <3> QED BY <1>3, <3>2 DEF LineUp
  <2>11. Promise!Start(s)
    <3>1. /\ q # <<>> /\ immediate' = [immediate EXCEPT ![s] = Tail(q)]
          /\ Running' = [Running EXCEPT ![s] = {Head(q)}]
          /\ EverStarted' = EverStarted \cup {Head(q)}
          /\ now' = now
      BY <1>1, <1>6, <2>1, <2>7, <2>8
    <3> QED BY <2>7, <2>9, <2>10, <3>1 DEF Promise!Start
  <2> QED BY <2>11
<1> QED BY <1>4, <1>5, <1>6

LEMMA InitPromises == Init => Promise!Init
<1> SUFFICES ASSUME Init PROVE Promise!Init
  OBVIOUS
<1>1. /\ immediate = [s \in Seqs |-> <<>>] /\ delayed = [s \in Seqs |-> {}]
      /\ now = 0 /\ finished = {} /\ task = [w \in Workers |-> NoTask]
  BY DEF Init, SequencesInit, GroupInit
<1>2. Later = [s \in Seqs |-> {}]
  BY <1>1 DEF Later
<1>3. \A s \in Seqs : Held(s) = {}
  BY <1>1 DEF Held
<1>4. Running = [s \in Seqs |-> {}] /\ EverStarted = {}
  BY <1>1, <1>3 DEF Running, EverStarted
<1> QED BY <1>1, <1>2, <1>4 DEF Promise!Init

LEMMA NextPromises ==
    ASSUME Typed, Exclusive, Once, [Next]_vars
    PROVE  [Promise!Next]_(Promise!vars)
<1> USE ConstantsAssumption DEF Typed
<1>0. ASSUME Unseen PROVE UNCHANGED Promise!vars
  BY <1>0, UnseenStutters
<1>1. ASSUME NEW th \in Threads, NEW t \in Tasks, PostTask(th, t), t \notin posted
      PROVE  [Promise!Next]_(Promise!vars)
  <2>1. CASE t \in Delayed
    <3>1. Unseen
      BY <1>1, <2>1 DEF PostTask, ReadClock, Unseen, seqVars
    <3> QED BY <1>0, <3>1
  <2>2. CASE t \notin Delayed
    <3>1. Promise!Post(t)
      BY <1>1, <2>2, PushTaskPosts DEF PostTask
    <3> QED BY <3>1 DEF Promise!Next
  <2> QED BY <2>1, <2>2
<1>2. ASSUME NEW c \in Clients, NEW t \in Tasks, Post(c, t)
      PROVE  [Promise!Next]_(Promise!vars)
  BY <1>1, <1>2 DEF Post, Threads
<1>3. ASSUME NEW w \in Workers, PostReply(w) PROVE [Promise!Next]_(Promise!vars)
  <2>1. task[w] \in Tasks /\ Reply[task[w]] \in Tasks /\ pc[w] = "reply" /\ w \in Threads
    BY <1>3 DEF PostReply, Control, WorkerControl, Holding, Threads, TypeOK
  <2>2. Reply[task[w]] \notin posted
    BY <2>1 DEF Once, ReplyOnce
  <2> QED BY <1>1, <1>3, <2>1, <2>2 DEF PostReply
<1>4. ASSUME NEW th \in Threads, HandOver(th) PROVE [Promise!Next]_(Promise!vars)
  <2>1. ASSUME AddSequence(th) \/ NotifyTimer(th) \/ PushTaskSource(th) \/ NotifyOne(th)
        PROVE  Unseen
    BY <2>1 DEF AddSequence, NotifyTimer, PushTaskSource, NotifyOne, Unseen, seqVars
  <2>2. ASSUME PushDelayedTask(th) PROVE Promise!Next
    BY <2>2, PushDelayedTaskPosts DEF Promise!Next
  <2> QED BY <1>0, <1>4, <2>1, <2>2 DEF HandOver
<1>5. ASSUME NEW w \in Workers, GetWork(w) \/ WillRunTask(w) \/ CheckMore(w)
                                \/ Panic(w) \/ SpuriousWake(w)
      PROVE  Unseen
  <2>1. UNCHANGED <<immediate, delayed, now, finished, task>>
    BY <1>5 DEF GetWork, WillRunTask, CheckMore, Panic, SpuriousWake, seqVars
  <2>2. pc[w] \in {"get_work", "will_run", "check"} => task[w] = NoTask
    BY DEF Control, WorkerControl, Popped
  <2>3. \A v \in Workers : v # w => src'[v] = src[v]
    BY <1>5 DEF GetWork, WillRunTask, CheckMore, Panic, SpuriousWake, TypeOK
  <2>4. task[w] # NoTask => src' = src
    BY <1>5, <2>2 DEF GetWork, WillRunTask, CheckMore, Panic, SpuriousWake
  <2> QED BY <2>1, <2>3, <2>4 DEF Unseen
<1>6. ASSUME NEW w \in Workers, TakeTask(w) \/ Callback(w) \/ ReleaseSequence(w)
      PROVE  [Promise!Next]_(Promise!vars)
  BY <1>6, TakeTaskStarts, CallbackStutters, ReleaseSequenceFinishes DEF Promise!Next
<1>7. ASSUME NEW w \in Workers, WorkerStep(w) PROVE [Promise!Next]_(Promise!vars)
  BY <1>0, <1>3, <1>5, <1>6, <1>7 DEF WorkerStep, DidProcessTask
<1>8. ASSUME TimerLoop \/ TimerTimeout \/ TimerSpuriousWake PROVE Unseen
  BY <1>8 DEF TimerLoop, WaitUntil, TimerTimeout, TimerSpuriousWake, TimerWakes, Unseen,
              seqVars
<1>9. ASSUME Shutdown PROVE Unseen
  BY <1>9 DEF Shutdown, JoinAll, NotifyAll, JoinWorkers, StopTimer, NotifyStop, JoinTimer,
              Unseen, seqVars
<1>10. ASSUME Tick PROVE Promise!Next
  <2>1. /\ UNCHANGED <<immediate, Later, Running, EverStarted>> /\ now' = now + 1
    BY <1>10 DEF Tick, Later, Running, EverStarted, Held, seqVars
  <2> QED BY <2>1 DEF Promise!Next, Promise!Advance
<1>11. ASSUME UNCHANGED vars PROVE Unseen
  BY <1>11 DEF vars, Unseen
<1> QED BY <1>0, <1>2, <1>4, <1>5, <1>7, <1>8, <1>9, <1>10, <1>11 DEF Next, Stopped

\* Both instances have the same initial states and the same steps.
LEMMA PromiseIsRunner ==
    /\ Promise!Init => Runner!Init
    /\ [Promise!Next]_(Promise!vars) => [Runner!Next]_(Runner!vars)
<1> USE DEF Later, Dropped, Running, EverStarted
<1>1. Promise!Init => Runner!Init
  BY DEF Promise!Init, Runner!Init
<1>2. UNCHANGED Promise!vars => UNCHANGED Runner!vars
  BY DEF Promise!vars, Runner!vars
<1>3. ASSUME NEW t \in Tasks PROVE Promise!Post(t) => Runner!Post(t)
  BY DEF Promise!Post, Promise!Fresh, Runner!Post, Runner!Fresh
<1>4. ASSUME NEW t \in Tasks PROVE Promise!PostDelayed(t) => Runner!PostDelayed(t)
  BY DEF Promise!PostDelayed, Promise!Fresh, Runner!PostDelayed, Runner!Fresh
<1>5. ASSUME NEW s \in Seqs PROVE Promise!Start(s) => Runner!Start(s)
  <2>1. \A D : Promise!InOrder(D) = Runner!InOrder(D)
    BY OneCardinality DEF Promise!InOrder, Runner!InOrder
  <2>2. Promise!Due(s) = Runner!Due(s)
    BY DEF Promise!Due, Runner!Due
  <2>3. Promise!InOrder(Promise!Due(s)) = Runner!InOrder(Runner!Due(s))
    BY <2>1, <2>2
  <2> HIDE DEF Later, Dropped, Running, EverStarted
  <2>4. ASSUME Promise!Start(s) PROVE Runner!Start(s)
    <3>1. PICK o \in Runner!InOrder(Runner!Due(s)) :
             LET q == immediate[s] \o [i \in DOMAIN o |-> o[i].task] IN
             /\ q # <<>>
             /\ immediate' = [immediate EXCEPT ![s] = Tail(q)]
             /\ Running' = [Running EXCEPT ![s] = {Head(q)}]
             /\ EverStarted' = EverStarted \cup {Head(q)}
      BY <2>3, <2>4 DEF Promise!Start
    <3>2. /\ Running[s] = {} /\ now' = now
          /\ Later' = [Later EXCEPT ![s] = @ \ Runner!Due(s)]
      BY <2>2, <2>4 DEF Promise!Start
    <3> QED BY <3>1, <3>2 DEF Runner!Start, Later, Dropped, Running, EverStarted
  <2> QED BY <2>4
<1>6. ASSUME NEW s \in Seqs PROVE Promise!Finish(s) => Runner!Finish(s)
  BY DEF Promise!Finish, Runner!Finish
<1>7. Promise!Advance => Runner!Advance
  BY DEF Promise!Advance, Runner!Advance
<1>8. Promise!Next => Runner!Next
  BY <1>3, <1>4, <1>5, <1>6, <1>7 DEF Promise!Next, Runner!Next
<1> QED BY <1>1, <1>2, <1>8

\* Callers see a sequenced runner, whatever the threads of the pool do: per
\* sequence first in first out, one task at a time, each at most once and none
\* before its deadline.
THEOREM ImplementsRunnerHolds == Spec => ImplementsRunner
<1>1. Init => Runner!Init
  BY InitPromises, PromiseIsRunner
<1>2. Typed /\ Exclusive /\ Once /\ [Next]_vars => [Runner!Next]_(Runner!vars)
  BY NextPromises, PromiseIsRunner
<1> QED BY <1>1, <1>2, InitTyped, NextTyped, InitExclusive, NextExclusive, InitOnce,
           NextOnce, PTL DEF Spec, ImplementsRunner, Runner!Spec
=============================================================================

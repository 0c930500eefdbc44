------------------------- MODULE TaskMonitor_proofs -------------------------
(***************************************************************************)
(* Type correctness of TaskMonitor, and that a scan of the watchdog is     *)
(* exact, for any number of workers, any threshold and any lag of a scan.  *)
(***************************************************************************)
EXTENDS TaskMonitor, SequenceTheorems, TLAPS

LEMMA AgesAreNat == Ages \subseteq Nat /\ Oldest \in Nat /\ Idle \notin Ages
BY MonitorAssumption DEF Ages, Oldest

\* Time passes for a slot.
LEMMA OlderType ==
    ASSUME NEW a \in Ages \cup {Idle}
    PROVE  /\ Older(a) \in Ages \cup {Idle}
           /\ Older(a) = Idle <=> a = Idle
           /\ a # Idle => Older(a) = IF a = Oldest THEN a ELSE a + 1
BY MonitorAssumption DEF Older, Ages, Oldest

-----------------------------------------------------------------------------
(* Type correctness *)

LEMMA InitTyped == Init => TypeOK
<1> SUFFICES ASSUME Init PROVE TypeOK
  OBVIOUS
<1>1. slots \in Seq(Workers) /\ hung \in Seq(Workers) /\ next \in 1 .. Len(slots) + 1
  BY DEF Init, InnerInit
<1>2. left \in 0 .. Interval /\ since \in 0 .. MaxLag
  BY MonitorAssumption DEF Init
<1>3. /\ slot \in [Workers -> Ages \cup {Idle}] /\ age \in [Workers -> Ages \cup {Idle}]
      /\ \A w \in Workers : slot[w] = Idle /\ worker[w] = "new"
  BY DEF Init
<1>4. fresh \in BOOLEAN /\ timedOut \in BOOLEAN /\ shutdown \in BOOLEAN
  BY DEF Init, InnerInit
<1> QED BY <1>1, <1>2, <1>3, <1>4 DEF Init, TypeOK

LEMMA WorkerTyped ==
    ASSUME TypeOK, NEW w \in Workers, WorkerStep(w)
    PROVE  TypeOK'
<1>1. CASE RegisterWorker(w)
  <2>1. slots' \in Seq(Workers) /\ Len(slots') = Len(slots) + 1 /\ Len(slots) \in Nat
    BY <1>1, AppendProperties, LenProperties DEF RegisterWorker, TypeOK
  <2>2. next' \in 1 .. Len(slots') + 1
    BY <1>1, <2>1 DEF RegisterWorker, TypeOK, dogVars
  <2> QED BY <1>1, <2>1, <2>2 DEF RegisterWorker, TypeOK, dogVars
<1>2. CASE TaskStarted(w)
  BY <1>2, MonitorAssumption DEF TaskStarted, TypeOK, dogVars, Ages, Oldest
<1>3. CASE Measure(w)
  BY <1>3 DEF Measure, TypeOK, dogVars
<1>4. CASE TaskFinished(w) \/ DropSlot(w)
  BY <1>4 DEF TaskFinished, DropSlot, Cleared, TypeOK, dogVars
<1> QED BY <1>1, <1>2, <1>3, <1>4 DEF WorkerStep

LEMMA WatchdogTyped ==
    ASSUME TypeOK, WatchdogLoop \/ SpuriousWake
    PROVE  TypeOK'
<1> USE MonitorAssumption DEF workerVars
<1>1. Len(slots) \in Nat
  BY LenProperties DEF TypeOK
<1>2. CASE Wait
  BY <1>2 DEF Wait, TypeOK
<1>3. CASE TimeOut \/ SpuriousWake
  BY <1>3 DEF TimeOut, SpuriousWake, WakeUp, TypeOK
<1>4. CASE Check
  BY <1>1, <1>4 DEF Check, TypeOK
<1>5. CASE Scan
  <2>1. hung' \in Seq(Workers) /\ next' \in 1 .. Len(slots) + 1
    BY <1>1, <1>5, AppendProperties, ElementOfSeq DEF Scan, TypeOK
  <2> QED BY <1>5, <2>1 DEF Scan, TypeOK
<1>6. CASE EndScan
  BY <1>6 DEF EndScan, TypeOK
<1>7. CASE Report
  <2>1. hung' \in Seq(Workers)
    <3>1. CASE hung = <<>>
      BY <1>7, <3>1 DEF Report, TypeOK
    <3>2. CASE hung # <<>>
      <4>1. hung' = Tail(hung)
        BY <1>7, <3>2 DEF Report
      <4>2. hung \in Seq(Workers)
        BY DEF TypeOK
      <4> QED BY <3>2, <4>1, <4>2, HeadTailProperties
    <3> QED BY <3>1, <3>2
  <2> QED BY <1>7, <2>1 DEF Report, TypeOK
<1> QED BY <1>2, <1>3, <1>4, <1>5, <1>6, <1>7 DEF WatchdogLoop

LEMMA TickTyped == TypeOK /\ Tick => TypeOK'
<1> SUFFICES ASSUME TypeOK, Tick PROVE TypeOK'
  OBVIOUS
<1>1. /\ slot' \in [Workers -> Ages \cup {Idle}] /\ age' \in [Workers -> Ages \cup {Idle}]
      /\ \A w \in Workers : slot'[w] = Idle <=> slot[w] = Idle
  BY OlderType DEF Tick, TypeOK
<1>2. left' \in 0 .. Interval /\ since' \in 0 .. MaxLag
  BY MonitorAssumption DEF Tick, TypeOK
<1> QED BY <1>1, <1>2 DEF Tick, TypeOK

LEMMA DropTyped == TypeOK /\ Drop => TypeOK'
BY DEF Drop, StoreFlag, Notify, Join, WakeUp, TypeOK, workerVars, dogVars

LEMMA NextTyped == TypeOK /\ [Next]_vars => TypeOK'
<1>1. TypeOK /\ UNCHANGED vars => TypeOK'
  BY DEF TypeOK, vars, workerVars, dogVars
<1> QED BY <1>1, WorkerTyped, WatchdogTyped, TickTyped, DropTyped DEF Next

\* Every variable keeps its type: the watchdog's index stays within the slots although
\* workers register while it waits, and a slot is in use exactly while a task runs.
THEOREM TypeCorrect == Spec => []TypeOK
<1> QED BY InitTyped, NextTyped, PTL DEF Spec

-----------------------------------------------------------------------------
(* Scans *)

\* The age of the callback that is running is what its slot says.
SlotsHonest == slot = age

\* A slot that would be reported belongs to a worker that was over the threshold when
\* the clock was read: a scan takes no longer than MaxLag, so the ages it compares have
\* not reached their limit on the way.
SuspectsKnown ==
    dog = "scan" =>
        \A w \in Workers : slot[w] # Idle /\ slot[w] >= since + Threshold => w \in suspects

ScanInv == TypeOK /\ SlotsHonest /\ SuspectsKnown /\ HungWereStuck /\ ScanComplete

LEMMA InitScan == Init => ScanInv
BY InitTyped DEF Init, ScanInv, SlotsHonest, SuspectsKnown, HungWereStuck, ScanComplete

\* A worker may start, finish or end at any point of a scan: the age of a new task is
\* below every threshold, and the slot that is cleared was right when it was read.
LEMMA WorkerScan ==
    ASSUME ScanInv, NEW w \in Workers, WorkerStep(w)
    PROVE  ScanInv'
<1> USE DEF ScanInv
<1>1. TypeOK'
  BY WorkerTyped
<1>2. SlotsHonest'
  BY DEF WorkerStep, RegisterWorker, TaskStarted, Measure, TaskFinished, DropSlot, Cleared,
         SlotsHonest
<1>3. UNCHANGED <<dog, since, next, hung, suspects>> /\ (dog = "scan" => slots' = slots)
  BY DEF WorkerStep, RegisterWorker, TaskStarted, Measure, TaskFinished, DropSlot, Cleared,
         dogVars
<1>4. \A v \in Workers : slot'[v] = slot[v] \/ slot'[v] = Idle \/ slot'[v] = 0
  BY DEF WorkerStep, RegisterWorker, TaskStarted, Measure, TaskFinished, DropSlot, Cleared,
         TypeOK
<1>5. \A n \in 0 .. MaxLag : ~(0 >= n + Threshold)
  BY MonitorAssumption
<1>6. SuspectsKnown' /\ HungWereStuck'
  BY <1>3, <1>4, <1>5 DEF SuspectsKnown, HungWereStuck, TypeOK
<1>7. ScanComplete'
  <2> SUFFICES ASSUME dog = "scan", NEW i \in 1 .. next - 1,
                      age'[slots[i]] # Idle, age'[slots[i]] >= since + Threshold
               PROVE  \E j \in DOMAIN hung : hung[j] = slots[i]
    BY <1>3 DEF ScanComplete
  <2>1. slots[i] \in Workers
    BY ElementOfSeq, LenProperties DEF TypeOK
  <2>2. age'[slots[i]] = age[slots[i]]
    BY <1>2, <1>4, <1>5, <2>1 DEF SlotsHonest, TypeOK
  <2> QED BY <2>2 DEF ScanComplete
<1> QED BY <1>1, <1>2, <1>6, <1>7

\* The clock is read: who is over the threshold now is a suspect, and nobody else.
LEMMA CheckScan == ScanInv /\ Check => ScanInv'
<1> SUFFICES ASSUME ScanInv, Check PROVE ScanInv'
  OBVIOUS
<1> USE MonitorAssumption DEF ScanInv
<1>1. TypeOK'
  BY WatchdogTyped DEF WatchdogLoop
<1>2. hung' = <<>> /\ next' = 1 /\ since' = 0 /\ UNCHANGED workerVars
  BY DEF Check
<1>3. SlotsHonest' /\ HungWereStuck' /\ ScanComplete'
  BY <1>2 DEF SlotsHonest, HungWereStuck, ScanComplete, workerVars
<1>4. SuspectsKnown'
  BY <1>2 DEF SuspectsKnown, SlotsHonest, Check, workerVars, TypeOK, Ages
<1> QED BY <1>1, <1>3, <1>4

\* The load of a slot reports its worker exactly if it is over the threshold.
LEMMA ScanScan == ScanInv /\ Scan => ScanInv'
<1> SUFFICES ASSUME ScanInv, Scan PROVE ScanInv'
  OBVIOUS
<1> USE MonitorAssumption DEF ScanInv
<1>1. TypeOK'
  BY WatchdogTyped DEF WatchdogLoop
<1> DEFINE w == slots[next]
<1>2. /\ w \in Workers /\ next \in Nat /\ hung \in Seq(Workers)
      /\ next' = next + 1 /\ dog = "scan"
      /\ UNCHANGED <<slots, slot, age, since, suspects, dog>>
  BY ElementOfSeq, LenProperties DEF Scan, TypeOK, workerVars
<1>3. slot[w] # Idle => (Elapsed(w) >= Threshold <=> slot[w] >= since + Threshold)
  BY <1>2 DEF Elapsed, TypeOK, Ages, Oldest
<1>4. CASE slot[w] # Idle /\ slot[w] >= since + Threshold
  <2>1. hung' = Append(hung, w)
    BY <1>3, <1>4 DEF Scan
  <2>2. /\ DOMAIN hung' = 1 .. Len(hung) + 1 /\ DOMAIN hung = 1 .. Len(hung)
        /\ \A i \in DOMAIN hung : hung'[i] = hung[i]
        /\ hung'[Len(hung) + 1] = w /\ Len(hung) \in Nat
    BY <1>2, <2>1, AppendProperties, LenProperties
  <2>3. w \in suspects
    BY <1>2, <1>4 DEF SuspectsKnown
  <2>4. HungWereStuck'
    BY <1>2, <2>2, <2>3 DEF HungWereStuck
  <2>5. ScanComplete'
    <3> SUFFICES ASSUME NEW i \in 1 .. next, age[slots[i]] # Idle,
                        age[slots[i]] >= since + Threshold
                 PROVE  \E j \in DOMAIN hung' : hung'[j] = slots[i]
      BY <1>2 DEF ScanComplete
    <3>1. CASE i = next
      BY <2>2, <3>1
    <3>2. CASE i # next
      <4>1. i \in 1 .. next - 1
        BY <1>2, <3>2
      <4>2. PICK j \in DOMAIN hung : hung[j] = slots[i]
        BY <1>2, <4>1 DEF ScanComplete
      <4>3. j \in DOMAIN hung' /\ hung'[j] = slots[i]
        BY <2>2, <4>2
      <4> QED BY <4>3
    <3> QED BY <3>1, <3>2
  <2> QED BY <1>1, <1>2, <2>4, <2>5 DEF SlotsHonest, SuspectsKnown
<1>5. CASE ~(slot[w] # Idle /\ slot[w] >= since + Threshold)
  <2>1. hung' = hung
    BY <1>3, <1>5 DEF Scan
  <2>2. ScanComplete'
    <3> SUFFICES ASSUME NEW i \in 1 .. next, age[slots[i]] # Idle,
                        age[slots[i]] >= since + Threshold
                 PROVE  \E j \in DOMAIN hung : hung[j] = slots[i]
      BY <1>2, <2>1 DEF ScanComplete
    <3>1. i \in 1 .. next - 1
      BY <1>2, <1>5 DEF SlotsHonest
    <3> QED BY <1>2, <3>1 DEF ScanComplete
  <2> QED BY <1>1, <1>2, <2>1, <2>2 DEF SlotsHonest, SuspectsKnown, HungWereStuck
<1> QED BY <1>4, <1>5

\* Time passes for the slots and for the clock reading alike; ages that have reached
\* their limit were over the threshold when the scan began.
LEMMA TickScan == ScanInv /\ Tick => ScanInv'
<1> SUFFICES ASSUME ScanInv, Tick PROVE ScanInv'
  OBVIOUS
<1> USE MonitorAssumption DEF ScanInv
<1>1. TypeOK'
  BY TickTyped
<1>2. SlotsHonest'
  BY DEF Tick, SlotsHonest
<1>3. UNCHANGED <<dog, slots, next, hung, suspects>>
  BY DEF Tick
<1>4. ASSUME dog = "scan", NEW w \in Workers, slot'[w] # Idle, slot'[w] >= since' + Threshold
      PROVE  slot[w] # Idle /\ slot[w] >= since + Threshold
  <2>1. since < MaxLag /\ since' = since + 1 /\ since \in Nat
    BY <1>4 DEF Tick, TypeOK
  <2>2. slot[w] \in Ages \cup {Idle} /\ slot'[w] = Older(slot[w])
    BY DEF Tick, TypeOK
  <2>3. slot[w] # Idle /\ slot'[w] = IF slot[w] = Oldest THEN slot[w] ELSE slot[w] + 1
    BY <1>4, <2>2, OlderType
  <2> QED BY <1>4, <2>1, <2>2, <2>3 DEF Ages, Oldest
<1>5. SuspectsKnown' /\ HungWereStuck'
  BY <1>3, <1>4 DEF SuspectsKnown, HungWereStuck
<1>6. ScanComplete'
  <2> SUFFICES ASSUME dog = "scan", NEW i \in 1 .. next - 1,
                      age'[slots[i]] # Idle, age'[slots[i]] >= since' + Threshold
               PROVE  \E j \in DOMAIN hung : hung[j] = slots[i]
    BY <1>3 DEF ScanComplete
  <2>1. slots[i] \in Workers
    BY ElementOfSeq, LenProperties DEF TypeOK
  <2>2. age[slots[i]] # Idle /\ age[slots[i]] >= since + Threshold
    BY <1>2, <1>4, <2>1 DEF SlotsHonest
  <2> QED BY <2>2 DEF ScanComplete
<1> QED BY <1>1, <1>2, <1>5, <1>6

\* The other steps of the watchdog begin no scan and change no slot.
LEMMA OtherScan ==
    ASSUME ScanInv, Wait \/ TimeOut \/ SpuriousWake \/ EndScan \/ Report
    PROVE  ScanInv'
<1> USE DEF ScanInv
<1>1. TypeOK'
  BY WatchdogTyped DEF WatchdogLoop
<1>2. UNCHANGED workerVars /\ dog' # "scan"
  BY DEF Wait, TimeOut, SpuriousWake, WakeUp, EndScan, Report
<1>3. HungWereStuck'
  <2>1. CASE EndScan
    BY <2>1 DEF EndScan, HungWereStuck
  <2>2. CASE Report
    <3>1. CASE hung = <<>>
      BY <2>2, <3>1 DEF Report, HungWereStuck
    <3>2. CASE hung # <<>>
      <4>1. /\ hung' = Tail(hung) /\ dog = "report" /\ suspects' = suspects
            /\ \A i \in DOMAIN hung' : i + 1 \in DOMAIN hung /\ hung'[i] = hung[i + 1]
        BY <2>2, <3>2, HeadTailProperties, LenProperties DEF Report, TypeOK
      <4> QED BY <4>1 DEF HungWereStuck
    <3> QED BY <3>1, <3>2
  <2>3. CASE Wait \/ TimeOut \/ SpuriousWake
    BY <2>3 DEF Wait, TimeOut, SpuriousWake, WakeUp, HungWereStuck
  <2> QED BY <2>1, <2>2, <2>3
<1> QED BY <1>1, <1>2, <1>3 DEF SlotsHonest, SuspectsKnown, ScanComplete, workerVars

\* The drop of the monitor at most wakes the watchdog.
LEMMA DropScan == ScanInv /\ Drop => ScanInv'
<1> SUFFICES ASSUME ScanInv, Drop PROVE ScanInv'
  OBVIOUS
<1>1. TypeOK'
  BY DropTyped DEF ScanInv
<1>2. /\ UNCHANGED <<slots, slot, age, since, next, hung, suspects>>
      /\ dog' = dog \/ dog' = "woken"
  BY DEF Drop, StoreFlag, Notify, Join, WakeUp, workerVars, dogVars
<1> QED BY <1>1, <1>2 DEF ScanInv, SlotsHonest, SuspectsKnown, HungWereStuck, ScanComplete

LEMMA NextScan == ScanInv /\ [Next]_vars => ScanInv'
<1>1. ScanInv /\ UNCHANGED vars => ScanInv'
  BY NextTyped DEF ScanInv, SlotsHonest, SuspectsKnown, HungWereStuck, ScanComplete, vars,
                   workerVars, dogVars
<1> QED BY <1>1, WorkerScan, CheckScan, ScanScan, TickScan, OtherScan, DropScan
        DEF Next, WatchdogLoop

\* A report names only workers that were over the threshold when the clock was read, and
\* a scan misses none of them that still is, however tasks start and end in between.
THEOREM ScanExactHolds == Spec => []ScanExact
<1>1. ScanInv => ScanExact
  BY DEF ScanInv, ScanExact
<1> QED BY <1>1, InitScan, NextScan, PTL DEF Spec
=============================================================================

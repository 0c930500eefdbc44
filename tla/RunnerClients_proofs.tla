----------------------- MODULE RunnerClients_proofs -----------------------
(* Theorems about RunnerClients, for every value of its constants. *)
EXTENDS RunnerClients, SequenceTheorems, FiniteSetTheorems, WellFoundedInduction, TLAPS

-----------------------------------------------------------------------------
(* Sequences *)

LEMMA SmallestOfNats ==
    ASSUME NEW I \in SUBSET Nat, I # {}
    PROVE  \E m \in I : \A k \in I : m <= k
<1>1. IsWellFoundedOn(OpToRel(<, Nat), Nat)
  BY NatLessThanWellFounded
<1>2. PICK m \in I : \A k \in Nat : <<k, m>> \in OpToRel(<, Nat) => k \notin I
  BY <1>1, WFMin
<1>3. \A k \in I : ~(k < m)
  BY <1>2 DEF OpToRel
<1> QED BY <1>3

LEMMA SuffixFacts ==
    ASSUME NEW S, NEW s \in Seq(S), NEW n \in 1 .. Len(s)
    PROVE  /\ SubSeq(s, n + 1, Len(s)) \in Seq(S)
           /\ Len(SubSeq(s, n + 1, Len(s))) = Len(s) - n
           /\ \A i \in 1 .. Len(s) - n : SubSeq(s, n + 1, Len(s))[i] = s[n + i]
<1>1. \A i \in 1 .. Len(s) : s[i] \in S
  BY ElementOfSeq
<1>2. PICK l \in Nat : l = Len(s)
  BY LenProperties
<1>3. PICK m \in Nat : m = n + 1
  BY <1>2
<1>4. n \in 1 .. l /\ \A i \in m .. l : s[i] \in S
  BY <1>1, <1>2, <1>3
<1>5. /\ SubSeq(s, m, l) \in Seq(S)
      /\ Len(SubSeq(s, m, l)) = IF m <= l THEN l - m + 1 ELSE 0
      /\ \A i \in 1 .. l - m + 1 : SubSeq(s, m, l)[i] = s[m + i - 1]
  BY <1>4, SubSeqProperties
<1> DEFINE b == SubSeq(s, m, l)
<1>6. b = SubSeq(s, n + 1, Len(s))
  BY <1>2, <1>3
<1> HIDE DEF b
<1>7. (IF m <= l THEN l - m + 1 ELSE 0) = l - n /\ l - m + 1 = l - n
  BY <1>3, <1>4
<1>8. \A i \in 1 .. l - n : m + i - 1 = n + i
  BY <1>3, <1>4
<1>9. Len(b) = l - n
  BY <1>5, <1>7 DEF b
<1>10. \A i \in 1 .. l - n : b[i] = s[n + i]
  BY <1>5, <1>7, <1>8 DEF b
<1> QED BY <1>2, <1>5, <1>6, <1>9, <1>10 DEF b

LEMMA RemoveFirstFacts ==
    ASSUME NEW S, NEW s \in Seq(S), NEW e
    PROVE  /\ RemoveFirst(s, e) \in Seq(S)
           /\ e \notin Range(s) => RemoveFirst(s, e) = s
           /\ e \in Range(s) =>
                \E n \in 1 .. Len(s) :
                    /\ s[n] = e /\ Len(RemoveFirst(s, e)) = Len(s) - 1
                    /\ \A k \in 1 .. Len(s) - 1 :
                          RemoveFirst(s, e)[k] = IF k < n THEN s[k] ELSE s[k + 1]
<1>1. DOMAIN s = 1 .. Len(s) /\ Len(s) \in Nat
  BY LenProperties
<1>2. (e \in Range(s)) <=> \E i \in 1 .. Len(s) : s[i] = e
  BY <1>1 DEF Range
<1>3. CASE e \notin Range(s)
  BY <1>2, <1>3 DEF RemoveFirst
<1>4. CASE e \in Range(s)
  <2> DEFINE I == {i \in 1 .. Len(s) : s[i] = e}
             n == SelectInSeq(s, LAMBDA v : v = e)
  <2>1. I # {}
    BY <1>2, <1>4
  <2>2. n = Min(I)
    BY <2>1 DEF SelectInSeq
  <2>3. \E m \in I : \A k \in I : m <= k
    <3>1. PICK i \in Nat : i \in I
      BY <1>1, <2>1
    <3>2. I \subseteq 1 .. Len(s)
      OBVIOUS
    <3>3. I \subseteq Nat
      BY <1>1
    <3> HIDE DEF I
    <3> QED BY <2>1, <3>3, SmallestOfNats
  <2>4. n \in I
    BY <2>2, <2>3 DEF Min
  <2>5. n \in 1 .. Len(s) /\ s[n] = e
    BY <2>4
  <2>6. RemoveFirst(s, e) = SubSeq(s, 1, n - 1) \o SubSeq(s, n + 1, Len(s))
    BY <1>2, <1>4 DEF RemoveFirst, RemoveAt
  <2> HIDE DEF n, I
  <2> DEFINE a == SubSeq(s, 1, n - 1)
             b == SubSeq(s, n + 1, Len(s))
  <2>7. \A i \in 1 .. Len(s) : s[i] \in S
    BY ElementOfSeq
  <2>8. /\ a \in Seq(S) /\ Len(a) = n - 1
        /\ \A i \in 1 .. n - 1 : a[i] = s[i]
    BY <1>1, <2>5, <2>7, SubSeqProperties
  <2>9. /\ b \in Seq(S) /\ Len(b) = Len(s) - n
        /\ \A i \in 1 .. Len(s) - n : b[i] = s[n + i]
    BY <2>5, SuffixFacts
  <2> HIDE DEF a, b
  <2>10. /\ a \o b \in Seq(S) /\ Len(a \o b) = Len(s) - 1
         /\ \A k \in 1 .. Len(s) - 1 :
               (a \o b)[k] = IF k <= n - 1 THEN a[k] ELSE b[k - (n - 1)]
    <3>1. /\ a \o b \in Seq(S) /\ Len(a \o b) = Len(a) + Len(b)
          /\ \A k \in 1 .. Len(a) + Len(b) :
                (a \o b)[k] = IF k <= Len(a) THEN a[k] ELSE b[k - Len(a)]
      BY <2>8, <2>9, ConcatProperties
    <3>2. Len(a) + Len(b) = Len(s) - 1
      BY <1>1, <2>5, <2>8, <2>9
    <3> QED BY <2>8, <3>1, <3>2
  <2>11. ASSUME NEW k \in 1 .. Len(s) - 1
         PROVE  (a \o b)[k] = IF k < n THEN s[k] ELSE s[k + 1]
    <3>1. CASE k < n
      BY <1>1, <2>5, <2>8, <2>10, <3>1
    <3>2. CASE ~(k < n)
      <4>0. ~(k <= n - 1)
        BY <1>1, <2>5, <3>2
      <4>1. (a \o b)[k] = b[k - (n - 1)]
        BY ONLY <2>10, <4>0, k \in 1 .. Len(s) - 1
      <4>2. k - (n - 1) \in 1 .. Len(s) - n /\ n + (k - (n - 1)) = k + 1
        BY <1>1, <2>5, <3>2
      <4> QED BY <2>9, <3>2, <4>1, <4>2
    <3> QED BY <3>1, <3>2
  <2> QED BY <1>4, <2>5, <2>6, <2>10, <2>11 DEF a, b
<1> QED BY <1>3, <1>4

-----------------------------------------------------------------------------
(* Tasks, and the threads that run them *)

Points == {"begin", "user", "schedule", "callback", "deliver", "transfer", "close",
           "reply", "drop"}

LEMMA TaskWork ==
    ASSUME NEW k \in {"task", "reply"}, NEW r \in Runners \cup {None}
    PROVE  Work(k, r) \in Works /\ Work(k, r).kind = k /\ Work(k, r).id = r
BY DEF Works, Work

LEMMA TickWork ==
    ASSUME NEW i \in Ids
    PROVE  Tick(i) \in Works /\ Tick(i).kind = "tick" /\ Tick(i).id = i
BY DEF Works, Work, Tick

LEMMA BusWork ==
    ASSUME NEW k \in BusKinds, NEW i \in Ids
    PROVE  Work(k, i) \in Works /\ Work(k, i).kind = k /\ Work(k, i).id = i
BY DEF Works, Work, BusWorks

LEMMA FlushWork ==
    ASSUME NEW n \in Nat
    PROVE  Work("flush", n) \in Works /\ Work("flush", n).kind = "flush"
           /\ Work("flush", n).id = n
BY DEF Works, Work, BusWorks

LEMMA FileWork ==
    ASSUME NEW k \in FileKinds, NEW i \in Ids
    PROVE  Work(k, i) \in Works /\ Work(k, i).kind = k /\ Work(k, i).id = i
BY DEF Works, Work, FileWorks

\* What the kind of a task says of its number.
LEMMA WorkTypes ==
    ASSUME NEW w \in Works
    PROVE  /\ w.kind \in {"tick"} \cup BusKinds \cup FileKinds \cup {"done"} => w.id \in Ids
           /\ w.kind = "flush" => w.id \in Nat
           /\ w.kind \in {"task", "reply"} => w.id \in Runners \cup {None}
           /\ w.kind = "done" => w.op \in FileKinds /\ w.result \in Seq(Ids)
BY DEF Works, BusWorks, FileWorks, Answers, BusKinds, FileKinds, Whole, Changes

RunnerShape ==
    /\ fifo \in [Runners -> Seq(Works)] /\ later \in [Runners -> Seq(Works)]
    /\ run \in [Threads -> Runs \cup {Nothing}]
    /\ \A t \in Threads : run[t] # Nothing => Serves(t, run[t].runner)
    /\ token \in [Callers -> Runners \cup {None}]
    /\ default \in [Callers -> Runners \cup {None}]
    /\ call \in [Callers -> CallsInProgress \cup {Nothing}]
    /\ calls \in Ids

LEMMA PostedFacts ==
    ASSUME RunnerShape, NEW r \in Runners, NEW w \in Works
    PROVE  /\ Posted(r, w) \in [Runners -> Seq(Works)]
           /\ Posted(r, w)[r] = Append(fifo[r], w)
           /\ \A q \in Runners \ {r} : Posted(r, w)[q] = fifo[q]
<1>1. Append(fifo[r], w) \in Seq(Works)
  BY AppendProperties DEF RunnerShape
<1> QED BY <1>1 DEF RunnerShape, Posted

LEMMA PostedDelayedFacts ==
    ASSUME RunnerShape, NEW r \in Runners, NEW w \in Works
    PROVE  /\ PostedDelayed(r, w) \in [Runners -> Seq(Works)]
           /\ PostedDelayed(r, w)[r] = Append(later[r], w)
           /\ \A q \in Runners \ {r} : PostedDelayed(r, w)[q] = later[q]
<1>1. Append(later[r], w) \in Seq(Works)
  BY AppendProperties DEF RunnerShape
<1> QED BY <1>1 DEF RunnerShape, PostedDelayed

\* Other threads keep their tasks.
Others(t) == \A u \in Threads \ {t} : run'[u] = run[u]

\* A thread goes on with its task at a, with these locals.
Moved(t, a, l) ==
    /\ run' \in [Threads -> Runs \cup {Nothing}] /\ Others(t)
    /\ run'[t] # Nothing /\ run'[t].task = run[t].task /\ run'[t].runner = run[t].runner
    /\ run'[t].at = a /\ run'[t].locals = l

LEMMA MovedFacts ==
    ASSUME RunnerShape, NEW t \in Threads, run[t] # Nothing,
           NEW a \in Points, NEW l \in Seq(Ids),
           run' = [run EXCEPT ![t].at = a, ![t].locals = l]
    PROVE  Moved(t, a, l)
<1>1. PICK q \in Runs : q = run[t]
  BY DEF RunnerShape
<1>2. run' = [run EXCEPT ![t] = [q EXCEPT !.at = a, !.locals = l]]
  BY <1>1
<1>3. [q EXCEPT !.at = a, !.locals = l] \in Runs
  BY DEF Runs, Points
<1>4. /\ [q EXCEPT !.at = a, !.locals = l].at = a
      /\ [q EXCEPT !.at = a, !.locals = l].locals = l
      /\ [q EXCEPT !.at = a, !.locals = l].task = q.task
      /\ [q EXCEPT !.at = a, !.locals = l].runner = q.runner
  BY DEF Runs
<1> DEFINE p == [q EXCEPT !.at = a, !.locals = l]
<1>5. /\ p \in Runs /\ run' = [run EXCEPT ![t] = p]
      /\ p.at = a /\ p.locals = l /\ p.task = q.task /\ p.runner = q.runner
  BY <1>2, <1>3, <1>4
<1> HIDE DEF p
<1> QED BY <1>1, <1>5, ClientsAssumption DEF Moved, Others, RunnerShape

LEMMA MoveToFacts ==
    ASSUME RunnerShape, NEW t \in Threads, run[t] # Nothing, NEW a \in Points, MoveTo(t, a)
    PROVE  Moved(t, a, run[t].locals)
<1>1. PICK q \in Runs : q = run[t]
  BY DEF RunnerShape
<1>2. run' = [run EXCEPT ![t] = [q EXCEPT !.at = a]]
  BY <1>1 DEF MoveTo
<1> DEFINE p == [q EXCEPT !.at = a]
<1>3. /\ p \in Runs /\ p.at = a /\ p.locals = q.locals /\ p.task = q.task
      /\ p.runner = q.runner
  BY DEF Runs, Points
<1>4. run' = [run EXCEPT ![t] = p]
  BY <1>2
<1> HIDE DEF p
<1> QED BY <1>1, <1>3, <1>4, ClientsAssumption DEF Moved, Others, RunnerShape

\* A thread has ended its task, and its guards were dropped.
Ended(t) ==
    /\ run' \in [Threads -> Runs \cup {Nothing}] /\ Others(t) /\ run'[t] = Nothing
    /\ token' \in [Callers -> Runners \cup {None}]
    /\ default' \in [Callers -> Runners \cup {None}]
    /\ \A c \in Callers \ {t} : token'[c] = token[c] /\ default'[c] = default[c]
    /\ t = IoThread => token'[t] = token[t] /\ default'[t] = default[t]
    /\ t # IoThread => token'[t] = None /\ default'[t] = None

LEMMA EndedFacts ==
    ASSUME RunnerShape, NEW t \in Threads, Finish(t)
    PROVE  Ended(t)
<1>1. t \in Callers
  BY DEF Callers
<1>2. run' = [run EXCEPT ![t] = Nothing]
  BY DEF Finish
<1>3. /\ token' = [token EXCEPT ![t] = IF t = IoThread THEN token[t] ELSE None]
      /\ default' = [default EXCEPT ![t] = IF t = IoThread THEN default[t] ELSE None]
  BY DEF Finish, Restored
<1> QED BY <1>1, <1>2, <1>3 DEF RunnerShape, Ended, Others

LEMMA StartFacts ==
    ASSUME RunnerShape, NEW t \in Threads, NEW r \in Runners, NEW owned, Start(t, r, owned)
    PROVE  /\ fifo[r] # <<>> /\ run[t] = Nothing /\ Serves(t, r)
           /\ \A u \in Threads : run[u] # Nothing => run[u].runner # r
           /\ fifo' = [fifo EXCEPT ![r] = Tail(fifo[r])]
           /\ run' \in [Threads -> Runs \cup {Nothing}] /\ Others(t)
           /\ run'[t] # Nothing /\ run'[t].runner = r /\ run'[t].task = Head(fifo[r])
           /\ run'[t].at = "begin" /\ run'[t].locals = <<>>
           /\ Head(fifo[r]) \in Works
           /\ fifo' \in [Runners -> Seq(Works)]
<1>1. /\ fifo[r] \in Seq(Works) /\ fifo[r] # <<>>
  BY DEF RunnerShape, Start
<1>2. Head(fifo[r]) \in Works /\ Tail(fifo[r]) \in Seq(Works)
  BY <1>1, HeadTailProperties
<1> DEFINE p == [runner |-> r, task |-> Head(fifo[r]), at |-> "begin", locals |-> <<>>]
<1>3. <<>> \in Seq(Ids)
  BY EmptySeq
<1>4. p \in Runs /\ p.runner = r /\ p.task = Head(fifo[r]) /\ p.at = "begin" /\ p.locals = <<>>
  BY <1>2, <1>3 DEF Runs
<1>5. run' = [run EXCEPT ![t] = p]
  BY DEF Start
<1> HIDE DEF p
<1> QED BY <1>1, <1>2, <1>4, <1>5, ClientsAssumption DEF RunnerShape, Start, Others
-----------------------------------------------------------------------------
(* Types *)

TimerShape ==
    /\ inners \in 0 .. calls /\ active \in 0 .. inners /\ handler \in BOOLEAN
    /\ late \in [1 .. MaxCalls -> Nat] /\ stoppedIn \subseteq 1 .. inners

BusShape ==
    /\ busHandle \in BOOLEAN /\ subscribers \in Seq(Ids) /\ ledger \in Seq(Ids)
    /\ nextId \in 0 .. calls /\ published \in 0 .. calls
    /\ got \in Seq(Ids \X Ids) /\ expected \in Seq(Ids \X Ids)

FileShape ==
    /\ asked \in 0 .. calls /\ answered \in Seq(Ids) /\ open \subseteq Ids
    /\ content \in Ids /\ changed \subseteq Ids

\* The types but for the two counts of what is owed, see Owed below.
Shape == RunnerShape /\ TimerShape /\ BusShape /\ FileShape

\* Calls are only ever added, so that what they bound stays bounded.
MoreCalls == calls' \in Ids /\ calls' >= calls

LEMMA TimerKept ==
    ASSUME Shape, MoreCalls, UNCHANGED timerVars
    PROVE  TimerShape'
BY RunnersAssumption DEF Shape, TimerShape, RunnerShape, timerVars, MoreCalls, Ids

LEMMA BusKept ==
    ASSUME Shape, MoreCalls, UNCHANGED busVars
    PROVE  BusShape'
BY RunnersAssumption DEF Shape, BusShape, RunnerShape, busVars, MoreCalls, Ids

LEMMA FileKept ==
    ASSUME Shape, MoreCalls, UNCHANGED fileVars
    PROVE  FileShape'
BY RunnersAssumption DEF Shape, FileShape, RunnerShape, fileVars, MoreCalls, Ids

LEMMA CallsCounted ==
    ASSUME Shape, NEW c \in Callers, MayCall(c), calls' = calls + 1
    PROVE  /\ MoreCalls /\ calls \in 0 .. MaxCalls - 1
           /\ calls + 1 \in Ids /\ call[c] = Nothing
BY RunnersAssumption DEF Shape, RunnerShape, MayCall, MoreCalls, Ids

LEMMA SameCalls ==
    ASSUME Shape, calls' = calls
    PROVE  MoreCalls
BY RunnersAssumption DEF Shape, RunnerShape, MoreCalls, Ids

\* A call puts at most one task into one of the queues.
LEMMA CallShape ==
    ASSUME Shape, MoreCalls, UNCHANGED <<run, token, default>>,
           \/ UNCHANGED <<fifo, later>>
           \/ \E r \in Runners, w \in Works :
                 \/ fifo' = Posted(r, w) /\ UNCHANGED later
                 \/ later' = PostedDelayed(r, w) /\ UNCHANGED fifo,
           call' \in [Callers -> CallsInProgress \cup {Nothing}]
    PROVE  RunnerShape'
<1>1. RunnerShape /\ calls' \in Ids
  BY DEF Shape, MoreCalls
<1>2. fifo' \in [Runners -> Seq(Works)] /\ later' \in [Runners -> Seq(Works)]
  BY <1>1, PostedFacts, PostedDelayedFacts DEF RunnerShape
<1> QED BY <1>1, <1>2 DEF RunnerShape

\* A task goes on, and may put one task into one of the queues.
LEMMA MovedShape ==
    ASSUME Shape, UNCHANGED <<token, default, call, calls>>,
           NEW t \in Threads, run[t] # Nothing, NEW a, NEW l, Moved(t, a, l),
           \/ UNCHANGED <<fifo, later>>
           \/ \E r \in Runners, w \in Works :
                 \/ fifo' = Posted(r, w) /\ UNCHANGED later
                 \/ later' = PostedDelayed(r, w) /\ UNCHANGED fifo
    PROVE  RunnerShape'
<1>1. RunnerShape
  BY DEF Shape
<1>2. fifo' \in [Runners -> Seq(Works)] /\ later' \in [Runners -> Seq(Works)]
  BY <1>1, PostedFacts, PostedDelayedFacts DEF RunnerShape
<1>3. \A u \in Threads : run'[u] # Nothing => Serves(u, run'[u].runner)
  BY <1>1 DEF RunnerShape, Moved, Others
<1> QED BY <1>1, <1>2, <1>3 DEF RunnerShape, Moved, Serves

\* A task ends, and may put one task into a queue.
LEMMA EndedShape ==
    ASSUME Shape, UNCHANGED <<call, calls, later>>,
           NEW t \in Threads, run[t] # Nothing, Finish(t),
           fifo' = fifo \/ \E r \in Runners, w \in Works : fifo' = Posted(r, w)
    PROVE  RunnerShape'
<1>1. RunnerShape
  BY DEF Shape
<1>2. Ended(t)
  BY <1>1, EndedFacts
<1>3. fifo' \in [Runners -> Seq(Works)]
  BY <1>1, PostedFacts DEF RunnerShape
<1>4. \A u \in Threads : run'[u] # Nothing => Serves(u, run'[u].runner)
  BY <1>1, <1>2 DEF RunnerShape, Ended, Others
<1> QED BY <1>1, <1>2, <1>3, <1>4 DEF RunnerShape, Ended, Serves

LEMMA StartCalls ==
    ASSUME NEW i \in Ids
    PROVE  /\ \A a \in {"schedule", "return"} :
                 [op |-> "start", id |-> i, at |-> a] \in CallsInProgress
           /\ [op |-> "subscribe", id |-> i, at |-> "post"] \in CallsInProgress
BY DEF CallsInProgress

LEMMA TimerCallShape ==
    ASSUME Shape, NEW c \in Callers, TimerCall(c), UNCHANGED <<busVars, fileVars>>
    PROVE  Shape'
<1>1. MayCall(c) /\ calls' = calls + 1 /\ UNCHANGED <<fifo, later, run, token, default>>
  BY DEF TimerCall, TimerStart, TimerStop, DropHandler, Calls
<1>2. MoreCalls /\ calls \in 0 .. MaxCalls - 1 /\ calls + 1 \in Ids
  BY <1>1, CallsCounted
<1>3. inners \in 0 .. calls /\ inners + 1 \in Ids /\ inners + 1 \in 1 .. calls'
  BY <1>1, <1>2, RunnersAssumption DEF Shape, TimerShape, Ids
<1>4. call' \in [Callers -> CallsInProgress \cup {Nothing}]
  <2>1. [op |-> "start", id |-> inners + 1, at |-> "schedule"] \in CallsInProgress
    BY <1>3, StartCalls
  <2> QED BY <2>1 DEF TimerCall, TimerStart, TimerStop, DropHandler, Shape, RunnerShape
<1>5. RunnerShape'
  BY <1>1, <1>2, <1>4, CallShape
<1>6. TimerShape'
  <2>1. CASE TimerStart(c) \/ TimerStop(c)
    <3>1. /\ inners' \in inners .. inners + 1 /\ inners' \in 0 .. calls'
          /\ active' \in 0 .. inners' /\ UNCHANGED <<handler, late>>
          /\ \/ stoppedIn' = stoppedIn
             \/ active # 0 /\ stoppedIn' = stoppedIn \cup {active}
      BY <1>1, <1>2, <1>3, <2>1 DEF TimerStart, TimerStop, GiveUp
    <3>2. active # 0 => active \in 1 .. inners'
      BY <1>3, <3>1 DEF Shape, TimerShape
    <3>3. stoppedIn \subseteq 1 .. inners'
      BY <1>3, <3>1 DEF Shape, TimerShape
    <3> QED BY <3>1, <3>2, <3>3 DEF Shape, TimerShape
  <2>2. CASE DropHandler(c)
    <3>1. UNCHANGED <<active, inners, late, stoppedIn>> /\ handler' = FALSE
      BY <2>2 DEF DropHandler
    <3>2. inners \in 0 .. calls'
      BY <1>1, <1>2, <1>3
    <3> QED BY <3>1, <3>2 DEF Shape, TimerShape
  <2> QED BY <2>1, <2>2 DEF TimerCall
<1> QED BY <1>2, <1>5, <1>6, BusKept, FileKept DEF Shape

LEMMA TimerStepShape ==
    ASSUME Shape, NEW c \in Callers, TimerStep(c), UNCHANGED <<busVars, fileVars>>
    PROVE  Shape'
<1>1. MoreCalls /\ UNCHANGED <<fifo, run, token, default>> /\ UNCHANGED timerVars
  BY SameCalls DEF TimerStep, StartSchedules, StartReturns
<1>2. /\ call[c] \in CallsInProgress /\ call[c].op = "start" /\ call[c].id \in Ids
      /\ TimerRunner \in Runners
  BY ClientsAssumption
     DEF Shape, RunnerShape, TimerStep, StartSchedules, StartReturns, CallsInProgress,
         Runners
<1>3. call' \in [Callers -> CallsInProgress \cup {Nothing}]
  <2>1. [call[c] EXCEPT !.at = "return"] \in CallsInProgress
    BY <1>2 DEF CallsInProgress
  <2>2. \/ call' = [call EXCEPT ![c] = [call[c] EXCEPT !.at = "return"]]
        \/ call' = [call EXCEPT ![c] = Nothing]
    BY DEF TimerStep, StartSchedules, StartReturns
  <2> QED BY <2>1, <2>2 DEF Shape, RunnerShape
<1>4. \/ UNCHANGED later
      \/ later' = PostedDelayed(TimerRunner, Tick(call[c].id))
  BY DEF TimerStep, StartSchedules, StartReturns
<1>5. RunnerShape'
  BY <1>1, <1>2, <1>3, <1>4, TickWork, CallShape
<1> QED BY <1>1, <1>5, TimerKept, BusKept, FileKept DEF Shape

LEMMA TickStepShape ==
    ASSUME Shape, NEW t \in Threads, TickStep(t), UNCHANGED <<busVars, fileVars>>
    PROVE  Shape'
<1>1. /\ run[t] # Nothing /\ run[t] \in Runs /\ run[t].task.kind = "tick"
      /\ TimerRunner \in Runners /\ RunnerShape
  BY ClientsAssumption DEF TickStep, TickBegin, TickSchedules, TickCalls, TickReturns, Is,
     Shape, RunnerShape, Runners
<1>2. run[t].task.id \in Ids /\ run[t].locals \in Seq(Ids)
  BY <1>1, WorkTypes DEF Runs
<1>3. MoreCalls /\ UNCHANGED <<fifo, call, calls>>
  BY SameCalls DEF TickStep, TickBegin, TickSchedules, TickCalls, TickReturns, callVars
<1>4. RunnerShape'
  <2>1. CASE Finish(t) /\ UNCHANGED later
    BY <1>1, <1>3, <2>1, EndedShape
  <2>2. ASSUME NEW a \in Points, MoveTo(t, a), UNCHANGED envVars,
               \/ UNCHANGED later
               \/ later' = PostedDelayed(TimerRunner, Tick(run[t].task.id))
        PROVE  RunnerShape'
    <3>1. Moved(t, a, run[t].locals)
      BY <1>1, <2>2, MoveToFacts
    <3> QED BY <1>1, <1>2, <1>3, <2>2, <3>1, TickWork, MovedShape DEF envVars
  <2>3. {"schedule", "callback", "user"} \subseteq Points
    BY DEF Points
  <2> QED BY <2>1, <2>2, <2>3
          DEF TickStep, TickBegin, TickSchedules, TickCalls, TickReturns, envVars
<1>5. TimerShape'
  <2>1. UNCHANGED <<calls, inners, active, handler, stoppedIn>>
    BY DEF TickStep, TickBegin, TickSchedules, TickCalls, TickReturns, callVars, timerVars
  <2>2. late' \in [1 .. MaxCalls -> Nat]
    <3>1. \/ late' = late
          \/ late' = [late EXCEPT ![run[t].task.id] = late[run[t].task.id] + 1]
      BY DEF TickStep, TickBegin, TickSchedules, TickCalls, TickReturns, timerVars
    <3> QED BY <3>1 DEF Shape, TimerShape
  <2> QED BY <2>1, <2>2 DEF Shape, TimerShape
<1> QED BY <1>3, <1>4, <1>5, BusKept, FileKept DEF Shape

LEMMA DeliveriesFacts ==
    ASSUME NEW subs \in Seq(Ids), NEW e \in Ids
    PROVE  /\ Deliveries(subs, e) \in Seq(Ids \X Ids)
           /\ Len(Deliveries(subs, e)) = Len(subs)
           /\ \A k \in 1 .. Len(subs) : Deliveries(subs, e)[k] = <<subs[k], e>>
<1>1. DOMAIN subs = 1 .. Len(subs) /\ Len(subs) \in Nat
  BY LenProperties
<1>2. \A k \in 1 .. Len(subs) : <<subs[k], e>> \in Ids \X Ids
  BY ElementOfSeq
<1>3. Deliveries(subs, e) \in [1 .. Len(subs) -> Ids \X Ids]
  BY <1>1, <1>2 DEF Deliveries
<1>4. Deliveries(subs, e) \in Seq(Ids \X Ids)
  BY <1>1, <1>3, SeqDef
<1>5. Len(Deliveries(subs, e)) = Len(subs)
  BY <1>1, <1>3, <1>4, LenProperties
<1> QED BY <1>1, <1>4, <1>5 DEF Deliveries

LEMMA WithoutFacts ==
    ASSUME NEW subs \in Seq(Ids), NEW id
    PROVE  Without(subs, id) \in Seq(Ids)
BY RemoveFirstFacts DEF Without

LEMMA RangeOfIds ==
    ASSUME NEW s \in Seq(Ids)
    PROVE  Range(s) \subseteq Ids
BY RangeOfSeq

LEMMA BusCallShape ==
    ASSUME Shape, NEW c \in Callers, BusCall(c), UNCHANGED <<timerVars, fileVars>>
    PROVE  Shape'
<1>1. MayCall(c) /\ calls' = calls + 1 /\ UNCHANGED <<later, run, token, default>>
  BY DEF BusCall, Subscribe, Unsubscribe, Publish, Flush, DropBus, Calls
<1>2. MoreCalls /\ calls \in 0 .. MaxCalls - 1 /\ calls + 1 \in Ids
  BY <1>1, CallsCounted
<1>3. /\ nextId \in Ids /\ published + 1 \in Ids /\ BusRunner \in Runners
      /\ nextId \in 0 .. calls' /\ nextId + 1 \in 0 .. calls'
      /\ published \in 0 .. calls' /\ published + 1 \in 0 .. calls'
  BY <1>1, <1>2, RunnersAssumption, ClientsAssumption DEF Shape, BusShape, Ids, Runners
<1>4. call' \in [Callers -> CallsInProgress \cup {Nothing}]
  <2>1. [op |-> "subscribe", id |-> nextId, at |-> "post"] \in CallsInProgress
    BY <1>3, StartCalls
  <2> QED BY <2>1 DEF BusCall, Subscribe, Unsubscribe, Publish, Flush, DropBus, Shape,
                      RunnerShape
<1>5. fifo' = fifo \/ \E w \in Works : fifo' = Posted(BusRunner, w)
  <2>1. \A id \in Range(ledger) : Work("unsubscribe", id) \in Works
    BY RangeOfIds, BusWork DEF Shape, BusShape, BusKinds
  <2>2. Work("publish", published + 1) \in Works
    BY <1>3, BusWork DEF BusKinds
  <2>3. Work("flush", Len(expected)) \in Works
    BY FlushWork, LenProperties DEF Shape, BusShape
  <2> QED BY <2>1, <2>2, <2>3 DEF BusCall, Subscribe, Unsubscribe, Publish, Flush, DropBus
<1>6. RunnerShape'
  BY <1>1, <1>2, <1>3, <1>4, <1>5, CallShape
<1>7. BusShape'
  <2>1. /\ busHandle' \in BOOLEAN /\ UNCHANGED <<subscribers, got>>
        /\ nextId' \in 0 .. calls' /\ published' \in 0 .. calls'
    BY <1>3 DEF BusCall, Subscribe, Unsubscribe, Publish, Flush, DropBus, Shape, BusShape
  <2>2. ledger' \in Seq(Ids)
    BY WithoutFacts DEF BusCall, Subscribe, Unsubscribe, Publish, Flush, DropBus, Shape,
                        BusShape
  <2>3. expected' \in Seq(Ids \X Ids)
    <3>1. expected \o Deliveries(ledger, published + 1) \in Seq(Ids \X Ids)
      BY <1>3, DeliveriesFacts, ConcatProperties DEF Shape, BusShape
    <3> QED BY <3>1 DEF BusCall, Subscribe, Unsubscribe, Publish, Flush, DropBus, Shape,
                        BusShape
  <2> QED BY <2>1, <2>2, <2>3 DEF Shape, BusShape
<1> QED BY <1>2, <1>6, <1>7, TimerKept, FileKept DEF Shape

LEMMA SubscribePostsShape ==
    ASSUME Shape, NEW c \in Callers, SubscribePosts(c), UNCHANGED <<timerVars, fileVars>>
    PROVE  Shape'
<1>1. MoreCalls /\ UNCHANGED <<later, run, token, default, calls>>
  BY SameCalls DEF SubscribePosts
<1>2. call[c] \in CallsInProgress /\ call[c].id \in Ids /\ BusRunner \in Runners
  BY ClientsAssumption DEF Shape, RunnerShape, SubscribePosts, CallsInProgress, Runners
<1>3. call' \in [Callers -> CallsInProgress \cup {Nothing}]
  BY DEF SubscribePosts, Shape, RunnerShape
<1>4. Work("subscribe", call[c].id) \in Works
  BY <1>2, BusWork DEF BusKinds
<1>5. fifo' = Posted(BusRunner, Work("subscribe", call[c].id))
  BY DEF SubscribePosts
<1>6. RunnerShape'
  BY <1>1, <1>2, <1>3, <1>4, <1>5, CallShape
<1>7. ledger' \in Seq(Ids)
  BY <1>2, AppendProperties DEF SubscribePosts, Shape, BusShape
<1>8. BusShape'
  BY <1>1, <1>7 DEF SubscribePosts, Shape, BusShape
<1> QED BY <1>1, <1>6, <1>8, TimerKept, FileKept DEF Shape

LEMMA BusTaskShape ==
    ASSUME Shape, NEW t \in Threads, BusTask(t), UNCHANGED <<timerVars, fileVars>>
    PROVE  Shape'
<1>1. /\ run[t] # Nothing /\ run[t] \in Runs /\ RunnerShape
      /\ run[t].task.kind \in BusKinds \cup {"flush"}
  BY DEF BusTask, BusUpdate, BusDispatch, Deliver, CallbackReturns, Delivered, FlushDone,
         DoneReturns, Is, Shape, RunnerShape, BusKinds
<1>2. /\ run[t].task.kind \in BusKinds => run[t].task.id \in Ids
      /\ run[t].locals \in Seq(Ids)
  BY <1>1, WorkTypes DEF Runs
<1>3. MoreCalls /\ UNCHANGED <<fifo, later, call, calls>>
  BY SameCalls DEF BusTask, BusUpdate, BusDispatch, Deliver, CallbackReturns, Delivered,
                   FlushDone, DoneReturns, callVars
<1>4. RunnerShape'
  <2>1. CASE Finish(t)
    BY <1>1, <1>3, <2>1, EndedShape
  <2>2. ASSUME NEW a \in Points, NEW l, Moved(t, a, l), UNCHANGED <<token, default>>
        PROVE  RunnerShape'
    BY <1>1, <1>3, <2>2, MovedShape
  <2>3. CASE (CallbackReturns(t) \/ FlushDone(t)) /\ ~Finish(t)
    <3>1. PICK a \in Points : MoveTo(t, a) /\ UNCHANGED <<token, default>>
      BY <2>3 DEF CallbackReturns, FlushDone, Points
    <3> QED BY <1>1, <2>2, <3>1, MoveToFacts
  <2>4. CASE BusDispatch(t) /\ ~Finish(t)
    <3>1. /\ run' = [run EXCEPT ![t].at = "deliver", ![t].locals = subscribers]
          /\ UNCHANGED <<token, default>> /\ subscribers \in Seq(Ids)
      BY <2>4 DEF BusDispatch, envVars, Shape, BusShape
    <3> QED BY <1>1, <2>2, <3>1, MovedFacts DEF Points
  <2>5. CASE Deliver(t)
    <3>1. /\ run' = [run EXCEPT ![t].at = "user", ![t].locals = Tail(run[t].locals)]
          /\ UNCHANGED <<token, default>> /\ Tail(run[t].locals) \in Seq(Ids)
      BY <1>2, <2>5, HeadTailProperties DEF Deliver
    <3> QED BY <1>1, <2>2, <3>1, MovedFacts DEF Points
  <2> QED BY <2>1, <2>3, <2>4, <2>5
          DEF BusTask, BusUpdate, Delivered, DoneReturns
<1>5. BusShape'
  <2>1. UNCHANGED <<busHandle, nextId, published, ledger, expected, calls>>
    BY DEF BusTask, BusUpdate, BusDispatch, Deliver, CallbackReturns, Delivered, FlushDone,
           DoneReturns, callVars, busVars
  <2>2. subscribers' \in Seq(Ids)
    <3>1. CASE BusUpdate(t)
      <4>1. run[t].task.id \in Ids
        BY <1>2, <3>1 DEF BusUpdate, Is, BusKinds
      <4>2. /\ Append(subscribers, run[t].task.id) \in Seq(Ids)
            /\ Without(subscribers, run[t].task.id) \in Seq(Ids)
            /\ subscribers \in Seq(Ids)
        BY <4>1, AppendProperties, WithoutFacts DEF Shape, BusShape
      <4> QED BY <3>1, <4>2 DEF BusUpdate
    <3>2. CASE ~BusUpdate(t)
      BY <3>2 DEF BusTask, BusDispatch, Deliver, CallbackReturns, Delivered, FlushDone,
                  DoneReturns, busVars, Shape, BusShape
    <3> QED BY <3>1, <3>2
  <2>3. got' \in Seq(Ids \X Ids)
    <3>1. CASE Deliver(t)
      <4>1. run[t].task.id \in Ids /\ Head(run[t].locals) \in Ids
        BY <1>2, <3>1, HeadTailProperties DEF Deliver, Is, BusKinds
      <4>2. <<Head(run[t].locals), run[t].task.id>> \in Ids \X Ids
        BY <4>1
      <4> QED BY <3>1, <4>2, AppendProperties DEF Deliver, Shape, BusShape
    <3>2. CASE ~Deliver(t)
      BY <3>2 DEF BusTask, BusUpdate, BusDispatch, CallbackReturns, Delivered, FlushDone,
                  DoneReturns, busVars, Shape, BusShape
    <3> QED BY <3>1, <3>2
  <2> QED BY <2>1, <2>2, <2>3 DEF Shape, BusShape
<1> QED BY <1>3, <1>4, <1>5, TimerKept, FileKept DEF Shape

LEMMA FileCallShape ==
    ASSUME Shape, NEW c \in Callers, FileCall(c), UNCHANGED <<timerVars, busVars>>
    PROVE  Shape'
<1>1. MayCall(c) /\ calls' = calls + 1 /\ UNCHANGED <<later, run, token, default, call>>
  BY DEF FileCall, Calls
<1>2. MoreCalls /\ calls \in 0 .. MaxCalls - 1 /\ calls + 1 \in Ids
  BY <1>1, CallsCounted
<1>3. /\ asked + 1 \in Ids /\ asked + 1 \in 0 .. calls'
      /\ FileRunner \in Runners
  BY <1>1, <1>2, RunnersAssumption, ClientsAssumption DEF Shape, FileShape, Ids, Runners
<1>4. \E w \in Works : fifo' = Posted(FileRunner, w)
  BY <1>3, FileWork, FileOpsAssumption DEF FileCall
<1>5. call' \in [Callers -> CallsInProgress \cup {Nothing}]
  BY <1>1 DEF Shape, RunnerShape
<1>6. RunnerShape'
  BY <1>1, <1>2, <1>3, <1>4, <1>5, CallShape
<1>7. FileShape'
  BY <1>3 DEF FileCall, Shape, FileShape
<1> QED BY <1>2, <1>6, <1>7, TimerKept, BusKept DEF Shape

LEMMA FileTaskShape ==
    ASSUME Shape, NEW t \in Threads, FileTask(t), UNCHANGED <<timerVars, busVars>>
    PROVE  Shape'
<1>1. /\ run[t] # Nothing /\ run[t] \in Runs /\ RunnerShape
      /\ run[t].task.kind \in FileKinds \cup {"done"}
      /\ IoRunner \in Runners
  BY DEF FileTask, FileOpen, Transfer, FileClose, FileWhole, FileReply, FileCallback,
         FileCallbackReturns, Is, Shape, RunnerShape, FileKinds, Runners
<1>2. run[t].task.id \in Ids /\ run[t].locals \in Seq(Ids)
  BY <1>1, WorkTypes DEF Runs
<1>3. MoreCalls /\ UNCHANGED <<later, call, calls>>
  BY SameCalls DEF FileTask, FileOpen, Transfer, FileClose, FileWhole, FileReply,
                   FileCallback, FileCallbackReturns, callVars
<1>4. RunnerShape'
  <2>1. CASE FileReply(t)
    <3>1. run[t].task.kind \in FileKinds
      BY <2>1 DEF FileReply, Is
    <3>2. [kind |-> "done", id |-> run[t].task.id, op |-> run[t].task.kind,
           result |-> run[t].locals] \in Works
      BY <1>2, <3>1 DEF Works, Answers
    <3> QED BY <1>1, <1>3, <2>1, <3>2, EndedShape DEF FileReply
  <2>2. CASE FileCallbackReturns(t)
    BY <1>1, <1>3, <2>2, EndedShape DEF FileCallbackReturns
  <2>3. CASE FileOpen(t) \/ Transfer(t) \/ FileClose(t) \/ FileWhole(t) \/ FileCallback(t)
    <3>1. UNCHANGED <<token, default, fifo>>
      BY <2>3 DEF FileOpen, Transfer, FileClose, FileWhole, FileCallback
    <3>2. (\E a \in Points : MoveTo(t, a)) \/ (\E a \in Points, ok \in BOOLEAN : Result(t, a, ok))
      BY <2>3 DEF FileOpen, Transfer, FileClose, FileWhole, FileCallback, Points
    <3>3. CASE \E a \in Points : MoveTo(t, a)
      BY <1>1, <1>3, <3>1, <3>3, MoveToFacts, MovedShape
    <3>4. CASE \E a \in Points, ok \in BOOLEAN : Result(t, a, ok)
      <4>1. PICK a \in Points, ok \in BOOLEAN : Result(t, a, ok)
        BY <3>4
      <4> DEFINE l == IF ok THEN <<content>> ELSE <<>>
      <4>2. l \in Seq(Ids)
        BY EmptySeq DEF Shape, FileShape
      <4>3. run' = [run EXCEPT ![t].at = a, ![t].locals = l]
        BY <4>1 DEF Result
      <4> HIDE DEF l
      <4> QED BY <1>1, <1>3, <3>1, <4>2, <4>3, MovedFacts, MovedShape
    <3> QED BY <3>2, <3>3, <3>4
  <2> QED BY <2>1, <2>2, <2>3 DEF FileTask
<1>5. FileShape'
  <2>1. UNCHANGED <<asked, calls>>
    BY DEF FileTask, FileOpen, Transfer, FileClose, FileWhole, FileReply, FileCallback,
           FileCallbackReturns, callVars, fileVars
  <2>2. answered' \in Seq(Ids)
    <3>1. answered \in Seq(Ids) /\ Append(answered, run[t].task.id) \in Seq(Ids)
      BY <1>2, AppendProperties DEF Shape, FileShape
    <3>2. answered' \in {answered, Append(answered, run[t].task.id)}
      BY DEF FileTask, FileOpen, Transfer, FileClose, FileWhole, FileReply, FileCallback,
             FileCallbackReturns, fileVars
    <3> QED BY <3>1, <3>2
  <2>3. open' \subseteq Ids
    BY <1>2 DEF FileTask, FileOpen, Transfer, FileClose, FileWhole, FileReply, FileCallback,
                FileCallbackReturns, fileVars, Shape, FileShape
  <2>4. content' \in Ids /\ changed' \subseteq Ids
    BY <1>2 DEF FileTask, FileOpen, Transfer, FileClose, FileWhole, FileReply, FileCallback,
                FileCallbackReturns, fileVars, Shape, FileShape, Change, NoChange
  <2> QED BY <2>1, <2>2, <2>3, <2>4 DEF Shape, FileShape
<1> QED BY <1>3, <1>4, <1>5, TimerKept, BusKept DEF Shape

LEMMA ReplyShape ==
    ASSUME Shape, UNCHANGED <<timerVars, busVars, fileVars>>,
           \/ \E c \in Callers, r \in Runners : PostTaskAndReply(c, r)
           \/ \E t \in Threads : BeginTask(t) \/ PostReply(t) \/ EndTask(t)
    PROVE  Shape'
<1>0. RunnerShape
  BY DEF Shape
<1>1. ASSUME NEW c \in Callers, NEW r \in Runners, PostTaskAndReply(c, r)
      PROVE  MoreCalls /\ RunnerShape'
  <2>1. MoreCalls /\ UNCHANGED <<later, run, token, default, call>>
    BY <1>1, CallsCounted DEF PostTaskAndReply
  <2>2. default[c] \in Runners \cup {None}
    BY <1>0 DEF RunnerShape
  <2>3. Work("task", default[c]) \in Works
    BY <2>2, TaskWork
  <2>4. call' \in [Callers -> CallsInProgress \cup {Nothing}]
    BY <1>0, <2>1 DEF RunnerShape
  <2> QED BY <1>1, <2>1, <2>3, <2>4, CallShape DEF PostTaskAndReply
<1>2. ASSUME NEW t \in Threads, BeginTask(t)
      PROVE  MoreCalls /\ RunnerShape'
  <2>1. /\ MoveTo(t, "user") /\ run[t] # Nothing
        /\ UNCHANGED <<fifo, later, token, default, call, calls>>
    BY <1>2 DEF BeginTask, Is
  <2>2. Moved(t, "user", run[t].locals)
    BY <1>0, <2>1, MoveToFacts DEF Points
  <2> QED BY <2>1, <2>2, MovedShape, SameCalls
<1>3. ASSUME NEW t \in Threads, PostReply(t)
      PROVE  MoreCalls /\ RunnerShape'
  <2>1. /\ MoveTo(t, "drop") /\ run[t] # Nothing /\ UNCHANGED <<later, token, default, call, calls>>
        /\ run[t].task.kind \in {"task", "reply"} /\ run[t].task.id # None
    BY <1>3 DEF PostReply, Is, callVars
  <2>2. run[t].task \in Works
    BY <1>0, <2>1 DEF RunnerShape, Runs
  <2>3. run[t].task.id \in Runners
    BY <2>1, <2>2, WorkTypes
  <2>4. Work("reply", run[t].task.id) \in Works
    BY <2>3, TaskWork
  <2>5. \E r \in Runners, w \in Works : fifo' = Posted(r, w) /\ UNCHANGED later
    BY <1>3, <2>1, <2>3, <2>4 DEF PostReply
  <2>6. Moved(t, "drop", run[t].locals)
    BY <1>0, <2>1, MoveToFacts DEF Points
  <2>7. RunnerShape'
    BY <2>1, <2>5, <2>6, MovedShape
  <2> QED BY <2>1, <2>7, SameCalls
<1>4. ASSUME NEW t \in Threads, EndTask(t)
      PROVE  MoreCalls /\ RunnerShape'
  <2>1. Finish(t) /\ run[t] # Nothing /\ UNCHANGED <<fifo, later, call, calls>>
    BY <1>4 DEF EndTask, Is, callVars
  <2> QED BY <2>1, EndedShape, SameCalls
<1> QED BY <1>1, <1>2, <1>3, <1>4, TimerKept, BusKept, FileKept DEF Shape

LEMMA TakeShape ==
    ASSUME Shape, NEW r \in Runners, Take(r)
    PROVE  Shape'
<1>1. PICK t \in Threads : Start(t, r, Owned(r))
  BY DEF Take, StartNext
<1>2. /\ RunnerShape /\ MoreCalls /\ UNCHANGED <<later, call, calls, timerVars, busVars, fileVars>>
      /\ t \in Callers
  BY <1>1, SameCalls DEF Shape, Start, callVars, Take, Callers
<1>3. /\ run' \in [Threads -> Runs \cup {Nothing}] /\ fifo' \in [Runners -> Seq(Works)]
      /\ Others(t) /\ run'[t].runner = r /\ Serves(t, r)
  BY <1>1, <1>2, StartFacts
<1>4. /\ token' \in [Callers -> Runners \cup {None}]
      /\ default' \in [Callers -> Runners \cup {None}]
  BY <1>1, <1>2 DEF RunnerShape, Start, ScopedToken, TokenOf, DefaultHandle
<1>5. \A u \in Threads : run'[u] # Nothing => Serves(u, run'[u].runner)
  BY <1>2, <1>3 DEF RunnerShape, Others
<1>6. RunnerShape'
  BY <1>2, <1>3, <1>4, <1>5 DEF RunnerShape, Serves
<1> QED BY <1>2, <1>6, TimerKept, BusKept, FileKept DEF Shape

LEMMA ExpireFacts ==
    ASSUME RunnerShape, NEW r \in Runners, NEW w, Expire(r, w)
    PROVE  /\ w \in Works /\ w \in Range(later[r])
           /\ fifo' = Posted(r, w) /\ later' = [later EXCEPT ![r] = RemoveFirst(later[r], w)]
           /\ RemoveFirst(later[r], w) \in Seq(Works)
           /\ UNCHANGED <<run, token, default, callVars>>
<1>1. later[r] \in Seq(Works) /\ w \in Range(later[r])
  BY DEF RunnerShape, Expire
<1>2. w \in Works
  BY <1>1, RangeOfSeq
<1>3. RemoveFirst(later[r], w) \in Seq(Works)
  BY <1>1, RemoveFirstFacts
<1> QED BY <1>1, <1>2, <1>3 DEF Expire

LEMMA DeadlineShape ==
    ASSUME Shape, NEW r \in Runners, NEW w, Deadline(r, w)
    PROVE  Shape'
<1>1. /\ RunnerShape /\ MoreCalls /\ Expire(r, w)
      /\ UNCHANGED <<calls, call, timerVars, busVars, fileVars>>
  BY SameCalls DEF Shape, Deadline, Expire, callVars
<1>2. RunnerShape'
  <2>1. /\ fifo' \in [Runners -> Seq(Works)] /\ later' \in [Runners -> Seq(Works)]
        /\ UNCHANGED <<run, token, default, callVars>>
    <3>1. /\ w \in Works /\ fifo' = Posted(r, w)
          /\ later' = [later EXCEPT ![r] = RemoveFirst(later[r], w)]
          /\ RemoveFirst(later[r], w) \in Seq(Works)
          /\ UNCHANGED <<run, token, default, callVars>>
      BY <1>1, ExpireFacts
    <3>2. fifo' \in [Runners -> Seq(Works)]
      BY <1>1, <3>1, PostedFacts
    <3> QED BY <1>1, <3>1, <3>2 DEF RunnerShape
  <2> QED BY <1>1, <2>1 DEF RunnerShape, Serves, callVars
<1> QED BY <1>1, <1>2, TimerKept, BusKept, FileKept DEF Shape

LEMMA InitShape == Init => Shape
<1> SUFFICES ASSUME Init PROVE Shape
  OBVIOUS
<1>0. 0 \in Ids /\ 0 \in 0 .. 0
  BY RunnersAssumption DEF Ids
<1>1. RunnerShape
  <2>1. /\ fifo \in [Runners -> Seq(Works)] /\ later \in [Runners -> Seq(Works)]
    BY EmptySeq DEF Init, RunnersInit
  <2>2. run \in [Threads -> Runs \cup {Nothing}] /\ \A t \in Threads : run[t] = Nothing
    BY DEF Init, RunnersInit
  <2>3. IoRunner \in Runners
    BY DEF Runners
  <2> QED BY <1>0, <2>1, <2>2, <2>3 DEF Init, RunnersInit, RunnerShape
<1>2. TimerShape
  BY <1>0 DEF Init, RunnersInit, TimerInit, TimerShape
<1>3. BusShape
  BY <1>0, EmptySeq DEF Init, RunnersInit, BusInit, BusShape
<1>4. FileShape
  BY <1>0, EmptySeq DEF Init, RunnersInit, FileInit, FileShape
<1> QED BY <1>1, <1>2, <1>3, <1>4 DEF Shape

LEMMA ShapeKept == Shape /\ [Next]_vars => Shape'
<1> SUFFICES ASSUME Shape, [Next]_vars PROVE Shape'
  OBVIOUS
<1>1. CASE \E c \in Callers : ClientCall(c) \/ CallStep(c)
  BY <1>1, TimerCallShape, BusCallShape, FileCallShape, ReplyShape, TimerStepShape,
     SubscribePostsShape DEF ClientCall, CallStep
<1>2. CASE \E t \in Threads : TaskStep(t)
  BY <1>2, ReplyShape, TickStepShape, BusTaskShape, FileTaskShape DEF TaskStep
<1>3. CASE \E r \in Runners : Take(r) \/ \E w \in Range(later[r]) : Deadline(r, w)
  BY <1>3, TakeShape, DeadlineShape
<1>4. CASE UNCHANGED vars
  <2>1. UNCHANGED <<fifo, later, run, token, default, call, calls>>
    BY <1>4 DEF vars, runnerVars, envVars, callVars
  <2>2. UNCHANGED timerVars /\ UNCHANGED busVars /\ UNCHANGED fileVars
    BY <1>4 DEF vars
  <2>3. RunnerShape'
    BY <2>1 DEF Shape, RunnerShape, Serves
  <2> QED BY <2>1, <2>2, <2>3, SameCalls, TimerKept, BusKept, FileKept DEF Shape
<1> QED BY <1>1, <1>2, <1>3, <1>4 DEF Next

LEMMA ShapeInvariant == Spec => []Shape
BY InitShape, ShapeKept, PTL DEF Spec
-----------------------------------------------------------------------------
(* What a task sees of its thread *)

LEMMA AppendRange ==
    ASSUME NEW S, NEW s \in Seq(S), NEW w \in S
    PROVE  Range(Append(s, w)) = Range(s) \cup {w}
<1>1. <<w>> \in Seq(S) /\ Range(<<w>>) = {w}
  BY DEF Range
<1>2. Append(s, w) = s \o <<w>>
  BY AppendIsConcat
<1> DEFINE u == <<w>>
<1>3. u \in Seq(S) /\ Range(u) = {w} /\ Append(s, w) = s \o u
  BY <1>1, <1>2
<1> HIDE DEF u
<1>4. Range(s \o u) = Range(s) \cup Range(u)
  BY <1>3, RangeConcatenation
<1> QED BY <1>3, <1>4

LEMMA TailRange ==
    ASSUME NEW S, NEW s \in Seq(S), s # <<>>
    PROVE  Range(Tail(s)) \subseteq Range(s) /\ Head(s) \in Range(s)
<1>1. /\ Len(s) \in Nat \ {0} /\ DOMAIN s = 1 .. Len(s)
      /\ Tail(s) \in Seq(S) /\ Len(Tail(s)) = Len(s) - 1
      /\ \A i \in 1 .. Len(Tail(s)) : Tail(s)[i] = s[i + 1]
  BY LenProperties, EmptySeq, HeadTailProperties
<1>2. DOMAIN Tail(s) = 1 .. Len(s) - 1
  BY <1>1, LenProperties
<1>3. Head(s) = s[1]
  BY <1>1
<1> QED BY <1>1, <1>2, <1>3 DEF Range

LEMMA RemoveFirstRange ==
    ASSUME NEW S, NEW s \in Seq(S), NEW e
    PROVE  Range(RemoveFirst(s, e)) \subseteq Range(s)
<1>1. RemoveFirst(s, e) \in Seq(S) /\ DOMAIN s = 1 .. Len(s) /\ Len(s) \in Nat
  BY RemoveFirstFacts, LenProperties
<1> DEFINE q == RemoveFirst(s, e)
<1>2. DOMAIN q = 1 .. Len(q)
  BY <1>1, LenProperties
<1>3. CASE e \notin Range(s)
  BY <1>3, RemoveFirstFacts
<1>4. CASE e \in Range(s)
  <2>1. PICK n \in 1 .. Len(s) :
           /\ Len(q) = Len(s) - 1
           /\ \A k \in 1 .. Len(s) - 1 : q[k] = IF k < n THEN s[k] ELSE s[k + 1]
    BY <1>4, RemoveFirstFacts
  <2> HIDE DEF q
  <2>2. \A k \in 1 .. Len(s) - 1 : k \in 1 .. Len(s) /\ k + 1 \in 1 .. Len(s)
    BY <1>1
  <2>3. \A k \in DOMAIN q : \E j \in DOMAIN s : q[k] = s[j]
    BY <1>1, <1>2, <2>1, <2>2
  <2> QED BY <2>3 DEF Range, q
<1> QED BY <1>3, <1>4

\* What the steps of the queues leave in them.
LEMMA PostedQueues ==
    ASSUME RunnerShape, NEW r \in Runners, NEW w \in Works,
           \/ fifo' = Posted(r, w) /\ UNCHANGED later
           \/ later' = PostedDelayed(r, w) /\ UNCHANGED fifo
    PROVE  /\ Queued(r)' = Queued(r) \cup {w}
           /\ \A q \in Runners \ {r} : Queued(q)' = Queued(q)
<1>1. fifo[r] \in Seq(Works) /\ later[r] \in Seq(Works)
  BY DEF RunnerShape
<1>2. /\ Range(Append(fifo[r], w)) = Range(fifo[r]) \cup {w}
      /\ Range(Append(later[r], w)) = Range(later[r]) \cup {w}
  BY <1>1, AppendRange
<1>3. CASE fifo' = Posted(r, w) /\ UNCHANGED later
  <2>1. fifo'[r] = Append(fifo[r], w) /\ \A q \in Runners \ {r} : fifo'[q] = fifo[q]
    BY <1>3, PostedFacts
  <2> QED BY <1>2, <1>3, <2>1 DEF Queued
<1>4. CASE later' = PostedDelayed(r, w) /\ UNCHANGED fifo
  <2>1. later'[r] = Append(later[r], w) /\ \A q \in Runners \ {r} : later'[q] = later[q]
    BY <1>4, PostedDelayedFacts
  <2> QED BY <1>2, <1>4, <2>1 DEF Queued
<1> QED BY <1>3, <1>4

LEMMA StartQueues ==
    ASSUME RunnerShape, NEW t \in Threads, NEW r \in Runners, NEW owned, Start(t, r, owned)
    PROVE  /\ \A q \in Runners : Queued(q)' \subseteq Queued(q)
           /\ Head(fifo[r]) \in Queued(r)
<1>1. fifo[r] \in Seq(Works) /\ fifo[r] # <<>> /\ UNCHANGED later
  BY DEF RunnerShape, Start
<1>2. Range(Tail(fifo[r])) \subseteq Range(fifo[r]) /\ Head(fifo[r]) \in Range(fifo[r])
  BY <1>1, TailRange
<1>3. fifo' = [fifo EXCEPT ![r] = Tail(fifo[r])]
  BY DEF Start
<1> QED BY <1>1, <1>2, <1>3 DEF RunnerShape, Queued

LEMMA ExpireQueues ==
    ASSUME RunnerShape, NEW r \in Runners, NEW w, Expire(r, w)
    PROVE  \A q \in Runners : /\ Queued(q)' \subseteq Queued(q)
                              /\ Range(later[q])' \subseteq Range(later[q])
<1>1. /\ w \in Works /\ w \in Range(later[r]) /\ fifo' = Posted(r, w)
      /\ later' = [later EXCEPT ![r] = RemoveFirst(later[r], w)]
      /\ fifo[r] \in Seq(Works) /\ later[r] \in Seq(Works)
  BY ExpireFacts DEF RunnerShape
<1>2. /\ fifo'[r] = Append(fifo[r], w)
      /\ \A q \in Runners \ {r} : fifo'[q] = fifo[q] /\ later'[q] = later[q]
      /\ later'[r] = RemoveFirst(later[r], w)
  BY <1>1, PostedFacts DEF RunnerShape
<1>3. /\ Range(fifo'[r]) = Range(fifo[r]) \cup {w}
      /\ Range(later'[r]) \subseteq Range(later[r])
  BY <1>1, <1>2, AppendRange, RemoveFirstRange
<1> QED BY <1>1, <1>2, <1>3 DEF Queued

\* Where tasks of each kind are posted: a reply to the runner it was asked from.
Home(w, r) ==
    /\ w.kind = "reply" => w.id = r
    /\ w.kind = "tick" => r = TimerRunner
    /\ w.kind \in BusKinds \cup {"flush"} => r = BusRunner
    /\ w.kind \in FileKinds => r = FileRunner
    /\ w.kind = "done" => r = IoRunner

LEMMA HomeFacts ==
    ASSUME NEW w \in Works
    PROVE  /\ w.kind = "task" => \A r \in Runners : Home(w, r)
           /\ w.kind = "reply" => Home(w, w.id)
           /\ w.kind = "tick" => Home(w, TimerRunner)
           /\ w.kind \in BusKinds \cup {"flush"} => Home(w, BusRunner)
           /\ w.kind \in FileKinds => Home(w, FileRunner)
           /\ w.kind = "done" => Home(w, IoRunner)
BY DEF Home, BusKinds, FileKinds, Whole, Changes

\* A task comes into a queue; only ticks are delayed, and the reply to a task goes to
\* the default runner of a caller.
Enters(r, w) ==
    /\ Home(w, r)
    /\ w.kind = "task" => \E c \in Callers : w.id = default[c]
    /\ \/ fifo' = Posted(r, w) /\ UNCHANGED later
       \/ later' = PostedDelayed(r, w) /\ w.kind = "tick" /\ UNCHANGED fifo

\* Every step, as the queues see it: what comes in goes home.
LEMMA QueueSteps ==
    ASSUME Shape, [Next]_vars
    PROVE  \/ \A r \in Runners : /\ Queued(r)' \subseteq Queued(r)
                                 /\ Range(later[r])' \subseteq Range(later[r])
           \/ \E r \in Runners, w \in Works : Enters(r, w)
<1> DEFINE G == \/ \A r \in Runners : /\ Queued(r)' \subseteq Queued(r)
                                      /\ Range(later[r])' \subseteq Range(later[r])
                \/ \E r \in Runners, w \in Works : Enters(r, w)
<1>0. RunnerShape /\ {TimerRunner, BusRunner, FileRunner, IoRunner} \subseteq Runners
  BY ClientsAssumption DEF Shape, Runners
<1>1. ASSUME UNCHANGED <<fifo, later>> PROVE G
  BY <1>1 DEF Queued
<1>2. ASSUME NEW r \in Runners, NEW w \in Works, Home(w, r),
             w.kind = "task" => \E c \in Callers : w.id = default[c],
             \/ fifo' = Posted(r, w) /\ UNCHANGED later
             \/ later' = PostedDelayed(r, w) /\ w.kind = "tick" /\ UNCHANGED fifo
      PROVE  G
  BY <1>2 DEF Enters
<1> HIDE DEF G
<1>3. ASSUME NEW c \in Callers, ClientCall(c) \/ CallStep(c)
      PROVE  G
  <2>1. CASE TimerCall(c) \/ StartReturns(c) \/ Subscribe(c) \/ DropBus(c)
    BY <1>1, <2>1 DEF TimerCall, TimerStart, TimerStop, DropHandler, StartReturns,
                      Subscribe, DropBus
  <2>2. CASE StartSchedules(c)
    <3>1. call[c].id \in Ids
      BY <1>0, <2>2 DEF RunnerShape, StartSchedules, CallsInProgress
    <3> QED BY <1>0, <1>2, <2>2, <3>1, TickWork, HomeFacts DEF StartSchedules
  <2>3. CASE SubscribePosts(c)
    <3>1. call[c].id \in Ids
      BY <1>0, <2>3 DEF RunnerShape, SubscribePosts, CallsInProgress
    <3>2. "subscribe" \in BusKinds
      BY DEF BusKinds
    <3> QED BY <1>0, <1>2, <2>3, <3>1, <3>2, BusWork, HomeFacts DEF SubscribePosts
  <2>4. CASE Unsubscribe(c)
    <3>1. PICK id \in Range(ledger) : fifo' = Posted(BusRunner, Work("unsubscribe", id))
      BY <2>4 DEF Unsubscribe
    <3>2. id \in Ids /\ "unsubscribe" \in BusKinds
      BY RangeOfIds DEF Shape, BusShape, BusKinds
    <3> QED BY <1>0, <1>2, <2>4, <3>1, <3>2, BusWork, HomeFacts DEF Unsubscribe
  <2>5. CASE Publish(c)
    <3>1. published + 1 \in Ids /\ "publish" \in BusKinds
      BY <2>5, RunnersAssumption DEF Publish, Shape, BusShape, MayCall, RunnerShape, Ids, BusKinds
    <3> QED BY <1>0, <1>2, <2>5, <3>1, BusWork, HomeFacts DEF Publish
  <2>6. CASE Flush(c)
    <3>1. Len(expected) \in Nat
      BY LenProperties DEF Shape, BusShape
    <3> QED BY <1>0, <1>2, <2>6, <3>1, FlushWork, HomeFacts DEF Flush
  <2>7. CASE FileCall(c)
    <3>1. asked + 1 \in Ids
      BY <2>7, RunnersAssumption DEF FileCall, Shape, FileShape, MayCall, RunnerShape, Ids
    <3>2. PICK op \in FileOps : fifo' = Posted(FileRunner, Work(op, asked + 1))
      BY <2>7 DEF FileCall
    <3>3. op \in FileKinds /\ op \notin {"task", "reply"}
      BY FileOpsAssumption DEF FileKinds, Whole, Changes
    <3>4. /\ Work(op, asked + 1) \in Works /\ Work(op, asked + 1).kind # "task"
          /\ Home(Work(op, asked + 1), FileRunner)
      BY <3>1, <3>3, FileWork, HomeFacts
    <3> QED BY <1>0, <1>2, <2>7, <3>2, <3>4 DEF FileCall
  <2>8. CASE \E r \in Runners \ {BusRunner} : PostTaskAndReply(c, r)
    <3>1. PICK r \in Runners : PostTaskAndReply(c, r)
      BY <2>8
    <3>2. default[c] \in Runners \cup {None}
      BY <1>0 DEF RunnerShape
    <3>3. /\ Work("task", default[c]) \in Works /\ Work("task", default[c]).kind = "task"
          /\ Work("task", default[c]).id = default[c]
      BY <3>2, TaskWork
    <3> QED BY <1>2, <3>1, <3>3, HomeFacts DEF PostTaskAndReply
  <2> QED BY <1>3, <2>1, <2>2, <2>3, <2>4, <2>5, <2>6, <2>7, <2>8
          DEF ClientCall, CallStep, BusCall, TimerStep
<1>4. ASSUME NEW t \in Threads, TaskStep(t)
      PROVE  G
  <2>1. CASE PostReply(t)
    <3>1. /\ run[t].task \in Works /\ run[t].task.kind \in {"task", "reply"}
          /\ run[t].task.id # None /\ UNCHANGED later
      BY <1>0, <2>1 DEF PostReply, Is, RunnerShape, Runs
    <3>2. run[t].task.id \in Runners
      BY <3>1, WorkTypes
    <3> QED BY <1>2, <2>1, <3>1, <3>2, TaskWork, HomeFacts DEF PostReply
  <2>2. CASE TickSchedules(t)
    <3>1. run[t].task \in Works /\ run[t].task.kind = "tick"
      BY <1>0, <2>2 DEF TickSchedules, Is, RunnerShape, Runs
    <3>2. run[t].task.id \in Ids
      BY <3>1, WorkTypes
    <3> QED BY <1>0, <1>2, <2>2, <3>2, TickWork, HomeFacts DEF TickSchedules
  <2>3. CASE FileReply(t)
    <3>1. /\ run[t].task \in Works /\ run[t].task.kind \in FileKinds
          /\ run[t].locals \in Seq(Ids)
      BY <1>0, <2>3 DEF FileReply, Is, RunnerShape, Runs
    <3>2. run[t].task.id \in Ids
      BY <3>1, WorkTypes
    <3> DEFINE w == [kind |-> "done", id |-> run[t].task.id, op |-> run[t].task.kind,
                     result |-> run[t].locals]
    <3>3. w \in Works /\ w.kind = "done"
      BY <3>1, <3>2 DEF Works, Answers
    <3>4. fifo' = Posted(IoRunner, w) /\ UNCHANGED later
      BY <2>3 DEF FileReply
    <3> HIDE DEF w
    <3> QED BY <1>0, <1>2, <3>3, <3>4, HomeFacts
  <2>4. CASE ~(PostReply(t) \/ TickSchedules(t) \/ FileReply(t))
    BY <1>1, <1>4, <2>4
       DEF TaskStep, BeginTask, EndTask, TickStep, TickBegin, TickCalls, TickReturns, BusTask,
           BusUpdate, BusDispatch, Deliver, CallbackReturns, Delivered, FlushDone,
           DoneReturns, FileTask, FileOpen, Transfer, FileClose, FileWhole, FileCallback,
           FileCallbackReturns
  <2> QED BY <2>1, <2>2, <2>3, <2>4
<1>5. ASSUME NEW r \in Runners, Take(r) \/ \E w \in Range(later[r]) : Deadline(r, w)
      PROVE  G
  BY <1>0, <1>5, StartQueues, ExpireQueues DEF Take, StartNext, Start, Deadline, G
<1>6. ASSUME UNCHANGED vars
      PROVE  G
  BY <1>1, <1>6 DEF vars, runnerVars
<1>7. G
  BY <1>3, <1>4, <1>5, <1>6 DEF Next
<1> QED BY <1>7 DEF G
\* Every step, as the threads see it.
ThreadMoves(t) == run[t] # Nothing /\ (\E a \in Points, l \in Seq(Ids) : Moved(t, a, l))
                  /\ UNCHANGED <<token, default>>

LEMMA TaskMoves ==
    ASSUME Shape, NEW t \in Threads, TaskStep(t)
    PROVE  ThreadMoves(t) \/ (run[t] # Nothing /\ Ended(t))
<1>0. RunnerShape
  BY DEF Shape
<1>1. run[t] # Nothing /\ run[t].locals \in Seq(Ids)
  BY <1>0 DEF TaskStep, BeginTask, PostReply, EndTask, TickStep, TickBegin, TickSchedules,
     TickCalls, TickReturns, BusTask, BusUpdate, BusDispatch, Deliver, CallbackReturns,
     Delivered, FlushDone, DoneReturns, FileTask, FileOpen, Transfer, FileClose, FileWhole,
     FileReply, FileCallback, FileCallbackReturns, Is, RunnerShape, Runs
<1>2. ASSUME Finish(t)
      PROVE  Ended(t)
  BY <1>0, <1>2, EndedFacts
<1>3. ASSUME NEW a \in Points, MoveTo(t, a), UNCHANGED <<token, default>>
      PROVE  ThreadMoves(t)
  BY <1>0, <1>1, <1>3, MoveToFacts DEF ThreadMoves
<1>4. ASSUME NEW a \in Points, NEW ok \in BOOLEAN, Result(t, a, ok), UNCHANGED <<token, default>>
      PROVE  ThreadMoves(t)
  <2> DEFINE l == IF ok THEN <<content>> ELSE <<>>
  <2>1. l \in Seq(Ids)
    BY EmptySeq DEF Shape, FileShape
  <2>2. run' = [run EXCEPT ![t].at = a, ![t].locals = l]
    BY <1>4 DEF Result
  <2> HIDE DEF l
  <2> QED BY <1>0, <1>1, <1>4, <2>1, <2>2, MovedFacts DEF ThreadMoves
<1>5. CASE BeginTask(t) \/ PostReply(t) \/ EndTask(t) \/ TickStep(t)
  BY <1>1, <1>2, <1>3, <1>5 DEF BeginTask, PostReply, EndTask, TickStep, TickBegin, TickSchedules,
     TickCalls, TickReturns, Points, envVars
<1>6. CASE BusDispatch(t)
  <2>1. CASE Finish(t)
    BY <1>1, <1>2, <2>1
  <2>2. CASE ~Finish(t)
    <3>1. /\ run' = [run EXCEPT ![t].at = "deliver", ![t].locals = subscribers]
          /\ UNCHANGED <<token, default>> /\ subscribers \in Seq(Ids)
      BY <1>6, <2>2 DEF BusDispatch, envVars, Shape, BusShape
    <3> QED BY <1>0, <1>1, <3>1, MovedFacts DEF Points, ThreadMoves
  <2> QED BY <2>1, <2>2
<1>7. CASE Deliver(t)
  <2>1. /\ run' = [run EXCEPT ![t].at = "user", ![t].locals = Tail(run[t].locals)]
        /\ UNCHANGED <<token, default>> /\ Tail(run[t].locals) \in Seq(Ids)
    BY <1>1, <1>7, HeadTailProperties DEF Deliver
  <2> QED BY <1>0, <1>1, <2>1, MovedFacts DEF Points, ThreadMoves
<1>8. CASE BusTask(t) /\ ~BusDispatch(t) /\ ~Deliver(t)
  BY <1>1, <1>2, <1>3, <1>8 DEF BusTask, BusUpdate, CallbackReturns, Delivered, FlushDone,
     DoneReturns, Points
<1>9. CASE FileTask(t)
  BY <1>1, <1>2, <1>3, <1>4, <1>9 DEF FileTask, FileOpen, Transfer, FileClose, FileWhole,
     FileReply, FileCallback, FileCallbackReturns, Points
<1> QED BY <1>5, <1>6, <1>7, <1>8, <1>9 DEF TaskStep

LEMMA ThreadSteps ==
    ASSUME Shape, [Next]_vars
    PROVE  \/ UNCHANGED <<run, token, default>>
           \/ \E t \in Threads : ThreadMoves(t) \/ (run[t] # Nothing /\ Ended(t))
           \/ \E t \in Threads, r \in Runners : Start(t, r, Owned(r))
<1>0. RunnerShape
  BY DEF Shape
<1>1. ASSUME NEW t \in Threads, TaskStep(t)
      PROVE  ThreadMoves(t) \/ (run[t] # Nothing /\ Ended(t))
  BY <1>1, TaskMoves
<1>2. ASSUME NEW c \in Callers, ClientCall(c) \/ CallStep(c)
      PROVE  UNCHANGED <<run, token, default>>
  BY <1>2 DEF ClientCall, CallStep, TimerCall, TimerStart, TimerStop, DropHandler, TimerStep,
     StartSchedules, StartReturns, BusCall, Subscribe, Unsubscribe, Publish, Flush, DropBus,
     SubscribePosts, FileCall, PostTaskAndReply
<1>3. ASSUME NEW r \in Runners, Take(r)
      PROVE  \E t \in Threads : Start(t, r, Owned(r))
  BY <1>3 DEF Take, StartNext
<1>4. ASSUME NEW r \in Runners, NEW w, Deadline(r, w)
      PROVE  UNCHANGED <<run, token, default>>
  BY <1>4 DEF Deadline, Expire
<1>5. CASE UNCHANGED vars
  BY <1>5 DEF vars, runnerVars, envVars
<1> QED BY <1>1, <1>2, <1>3, <1>4, <1>5 DEF Next

\* Tasks are where they belong, and no runner is served by two threads.
Placed ==
    /\ \A r \in Runners : \A w \in Queued(r) : Home(w, r)
    /\ \A r \in Runners : \A w \in Range(later[r]) : w.kind = "tick"
    /\ \A t \in Threads : run[t] # Nothing => Home(run[t].task, run[t].runner)
    /\ \A t, u \in Threads :
          run[t] # Nothing /\ run[u] # Nothing /\ run[t].runner = run[u].runner => t = u

LEMMA InitPlaced == Init => Placed
<1> SUFFICES ASSUME Init PROVE Placed
  OBVIOUS
<1>1. /\ \A r \in Runners : fifo[r] = <<>> /\ later[r] = <<>>
      /\ \A t \in Threads : run[t] = Nothing
  BY DEF Init, RunnersInit
<1>2. Range(<<>>) = {}
  BY DEF Range
<1> QED BY <1>1, <1>2 DEF Placed, Queued

LEMMA PlacedKept == Shape /\ Placed /\ [Next]_vars => Placed'
<1> SUFFICES ASSUME Shape, Placed, [Next]_vars PROVE Placed'
  OBVIOUS
<1>0. RunnerShape
  BY DEF Shape
<1>1. /\ \A r \in Runners : \A w \in Queued(r)' : Home(w, r)
      /\ \A r \in Runners : \A w \in Range(later[r])' : w.kind = "tick"
  <2>1. CASE \A r \in Runners : /\ Queued(r)' \subseteq Queued(r)
                                /\ Range(later[r])' \subseteq Range(later[r])
    BY <2>1 DEF Placed
  <2>2. ASSUME NEW r \in Runners, NEW w \in Works, Enters(r, w)
        PROVE  /\ \A q \in Runners : \A v \in Queued(q)' : Home(v, q)
               /\ \A q \in Runners : \A v \in Range(later[q])' : v.kind = "tick"
    <3>1. Queued(r)' = Queued(r) \cup {w} /\ \A q \in Runners \ {r} : Queued(q)' = Queued(q)
      BY <1>0, <2>2, PostedQueues DEF Enters
    <3>2. \A q \in Runners : \A v \in Range(later[q])' : v.kind = "tick"
      <4>1. CASE UNCHANGED later
        BY <4>1 DEF Placed
      <4>2. CASE later' = PostedDelayed(r, w) /\ w.kind = "tick"
        <5>1. /\ later'[r] = Append(later[r], w) /\ later[r] \in Seq(Works)
              /\ \A q \in Runners \ {r} : later'[q] = later[q]
          BY <1>0, <4>2, PostedDelayedFacts DEF RunnerShape
        <5>2. Range(later'[r]) = Range(later[r]) \cup {w}
          BY <5>1, AppendRange
        <5> QED BY <4>2, <5>1, <5>2 DEF Placed
      <4> QED BY <2>2, <4>1, <4>2 DEF Enters
    <3> QED BY <2>2, <3>1, <3>2 DEF Enters, Placed
  <2> QED BY <2>1, <2>2, QueueSteps
<1>2. /\ \A t \in Threads : run'[t] # Nothing => Home(run'[t].task, run'[t].runner)
      /\ \A t, u \in Threads :
            run'[t] # Nothing /\ run'[u] # Nothing /\ run'[t].runner = run'[u].runner => t = u
  <2>1. CASE UNCHANGED <<run, token, default>>
    BY <2>1 DEF Placed
  <2>2. CASE \E t \in Threads : ThreadMoves(t)
    BY <2>2 DEF ThreadMoves, Moved, Others, Placed
  <2>3. CASE \E t \in Threads : run[t] # Nothing /\ Ended(t)
    BY <2>3 DEF Ended, Others, Placed
  <2>4. ASSUME NEW t \in Threads, NEW r \in Runners, Start(t, r, Owned(r))
        PROVE  /\ \A u \in Threads : run'[u] # Nothing => Home(run'[u].task, run'[u].runner)
               /\ \A u, v \in Threads :
                     run'[u] # Nothing /\ run'[v] # Nothing /\ run'[u].runner = run'[v].runner
                     => u = v
    <3>1. /\ \A u \in Threads : run[u] # Nothing => run[u].runner # r
          /\ Others(t) /\ run'[t].runner = r /\ run'[t].task = Head(fifo[r])
      BY <1>0, <2>4, StartFacts
    <3>2. Head(fifo[r]) \in Queued(r)
      BY <1>0, <2>4, StartQueues
    <3> QED BY <3>1, <3>2 DEF Others, Placed
  <2> QED BY <2>1, <2>2, <2>3, <2>4, ThreadSteps
<1> QED BY <1>1, <1>2 DEF Placed

LEMMA PlacedInvariant == Spec => []Placed
BY ShapeInvariant, InitPlaced, PlacedKept, PTL DEF Spec
-----------------------------------------------------------------------------
(* Steps of one component, as the others see them *)

\* Only tasks of the kinds G go on or end, and only one such task is posted.
Goes(G) == \A t \in Threads :
    \/ run'[t] = run[t]
    \/ /\ run[t] # Nothing /\ run[t].task.kind \in G
       /\ run'[t] # Nothing => run'[t].task = run[t].task
Posts(G) ==
    \/ fifo' = fifo
    \/ \E r \in Runners, w \in Works : w.kind \in G /\ Home(w, r) /\ fifo' = Posted(r, w)
Within(G) == Goes(G) /\ Posts(G)

LEMMA TaskGoes ==
    ASSUME Shape, NEW G, NEW t \in Threads, TaskStep(t), run[t].task.kind \in G
    PROVE  Goes(G)
BY TaskMoves DEF ThreadMoves, Moved, Ended, Others, Goes

LEMMA TimerWithin ==
    ASSUME Shape, Placed,
           \/ \E c \in Callers : TimerCall(c) \/ TimerStep(c)
           \/ \E t \in Threads : TaskStep(t) /\ TickStep(t)
           \/ \E r \in Runners : \E w \in Range(later[r]) : Deadline(r, w)
    PROVE  Within({"tick"})
<1>1. CASE \E c \in Callers : TimerCall(c) \/ TimerStep(c)
  BY <1>1 DEF TimerCall, TimerStart, TimerStop, DropHandler, TimerStep, StartSchedules,
     StartReturns, Within, Goes, Posts
<1>2. ASSUME NEW t \in Threads, TaskStep(t), TickStep(t)
      PROVE  Within({"tick"})
  <2>1. run[t].task.kind \in {"tick"} /\ UNCHANGED fifo
    BY <1>2 DEF TickStep, TickBegin, TickSchedules, TickCalls, TickReturns, Is
  <2> QED BY <1>2, <2>1, TaskGoes DEF Within, Posts
<1>3. ASSUME NEW r \in Runners, NEW w \in Range(later[r]), Deadline(r, w)
      PROVE  Within({"tick"})
  <2>1. /\ w \in Works /\ w.kind \in {"tick"} /\ fifo' = Posted(r, w) /\ UNCHANGED run
        /\ w \in Queued(r)
    BY <1>3, ExpireFacts DEF Shape, Deadline, Placed, Queued
  <2>2. Home(w, r)
    BY <2>1 DEF Placed
  <2> QED BY <2>1, <2>2 DEF Within, Posts, Goes
<1> QED BY <1>1, <1>2, <1>3

LEMMA ReplyWithin ==
    ASSUME Shape, Placed,
           \/ \E c \in Callers, r \in Runners : PostTaskAndReply(c, r)
           \/ \E t \in Threads : TaskStep(t) /\ (BeginTask(t) \/ PostReply(t) \/ EndTask(t))
    PROVE  Within({"task", "reply"})
<1>0. RunnerShape
  BY DEF Shape
<1>1. ASSUME NEW c \in Callers, NEW r \in Runners, PostTaskAndReply(c, r)
      PROVE  Within({"task", "reply"})
  <2>1. default[c] \in Runners \cup {None}
    BY <1>0 DEF RunnerShape
  <2>2. /\ Work("task", default[c]) \in Works
        /\ Work("task", default[c]).kind = "task"
    BY <2>1, TaskWork
  <2> QED BY <1>1, <2>2, HomeFacts DEF PostTaskAndReply, Within, Goes, Posts
<1>2. ASSUME NEW t \in Threads, TaskStep(t), BeginTask(t) \/ PostReply(t) \/ EndTask(t)
      PROVE  Within({"task", "reply"})
  <2>1. run[t].task \in Works /\ run[t].task.kind \in {"task", "reply"}
    BY <1>0, <1>2 DEF BeginTask, PostReply, EndTask, Is, RunnerShape, Runs
  <2>2. run[t].task.id \in Runners \cup {None}
    BY <2>1, WorkTypes
  <2>3. Posts({"task", "reply"})
    <3> DEFINE w == Work("reply", run[t].task.id)
    <3>1. CASE BeginTask(t) \/ EndTask(t)
      BY <3>1 DEF BeginTask, EndTask, Posts
    <3>2. CASE PostReply(t)
      <4>1. fifo' = Posted(run[t].task.id, w) /\ run[t].task.id \in Runners
        BY <2>2, <3>2 DEF PostReply
      <4>2. w \in Works /\ w.kind = "reply" /\ w.id = run[t].task.id
        BY <2>2, TaskWork
      <4> HIDE DEF w
      <4> QED BY <4>1, <4>2, HomeFacts DEF Posts
    <3> QED BY <1>2, <3>1, <3>2
  <2> QED BY <1>2, <2>1, <2>3, TaskGoes DEF Within
<1> QED BY <1>1, <1>2

LEMMA BusWithin ==
    ASSUME Shape, Placed,
           \/ \E c \in Callers : BusCall(c) \/ SubscribePosts(c)
           \/ \E t \in Threads : TaskStep(t) /\ BusTask(t)
    PROVE  Within(BusKinds \cup {"flush"})
<1> DEFINE G == BusKinds \cup {"flush"}
<1>0. RunnerShape /\ BusRunner \in Runners
  BY ClientsAssumption DEF Shape, Runners
<1>1. ASSUME NEW w \in Works, w.kind \in G, fifo' = Posted(BusRunner, w)
      PROVE  Posts(G)
  BY <1>0, <1>1, HomeFacts DEF Posts
<1>2. /\ {"subscribe", "unsubscribe", "publish"} \subseteq BusKinds
      /\ {"subscribe", "unsubscribe", "publish", "flush"} \subseteq G
  BY DEF BusKinds
<1> HIDE DEF G
<1>3. ASSUME NEW c \in Callers, BusCall(c) \/ SubscribePosts(c)
      PROVE  Within(G)
  <2>1. Goes(G)
    BY <1>3 DEF BusCall, Subscribe, Unsubscribe, Publish, Flush, DropBus, SubscribePosts, Goes
  <2>2. CASE SubscribePosts(c)
    <3>1. call[c].id \in Ids
      BY <1>0, <2>2 DEF RunnerShape, SubscribePosts, CallsInProgress
    <3> QED BY <1>1, <1>2, <2>1, <2>2, <3>1, BusWork DEF SubscribePosts, Within
  <2>3. CASE Unsubscribe(c)
    <3>1. PICK id \in Range(ledger) : fifo' = Posted(BusRunner, Work("unsubscribe", id))
      BY <2>3 DEF Unsubscribe
    <3>2. id \in Ids
      BY RangeOfIds DEF Shape, BusShape
    <3> QED BY <1>1, <1>2, <2>1, <3>1, <3>2, BusWork DEF Within
  <2>4. CASE Publish(c)
    <3>1. published + 1 \in Ids
      BY <2>4, RunnersAssumption DEF Publish, Shape, BusShape, MayCall, RunnerShape, Ids
    <3> QED BY <1>1, <1>2, <2>1, <2>4, <3>1, BusWork DEF Publish, Within
  <2>5. CASE Flush(c)
    <3>1. Len(expected) \in Nat
      BY LenProperties DEF Shape, BusShape
    <3> QED BY <1>1, <1>2, <2>1, <2>5, <3>1, FlushWork DEF Flush, Within
  <2>6. CASE Subscribe(c) \/ DropBus(c)
    BY <2>1, <2>6 DEF Subscribe, DropBus, Within, Posts
  <2> QED BY <1>3, <2>2, <2>3, <2>4, <2>5, <2>6 DEF BusCall
<1>4. ASSUME NEW t \in Threads, TaskStep(t), BusTask(t)
      PROVE  Within(G)
  <2>1. run[t].task.kind \in G /\ UNCHANGED fifo
    BY <1>2, <1>4 DEF BusTask, BusUpdate, BusDispatch, Deliver, CallbackReturns, Delivered,
       FlushDone, DoneReturns, Is
  <2> QED BY <1>4, <2>1, TaskGoes DEF Within, Posts
<1> QED BY <1>3, <1>4 DEF G

LEMMA FileWithin ==
    ASSUME Shape, Placed,
           \/ \E c \in Callers : FileCall(c)
           \/ \E t \in Threads : TaskStep(t) /\ FileTask(t)
    PROVE  Within(FileKinds \cup {"done"})
<1> DEFINE G == FileKinds \cup {"done"}
<1>0. RunnerShape /\ FileRunner \in Runners /\ IoRunner \in Runners
  BY ClientsAssumption DEF Shape, Runners
<1>1. \A k \in FileKinds : k \in G
  OBVIOUS
<1>2. "done" \in G
  OBVIOUS
<1>3. FileKinds \ Whole \subseteq G /\ Whole \subseteq G
  BY DEF FileKinds
<1> HIDE DEF G
<1>4. ASSUME NEW c \in Callers, FileCall(c)
      PROVE  Within(G)
  <2>1. asked + 1 \in Ids
    BY <1>4, RunnersAssumption DEF FileCall, Shape, FileShape, MayCall, RunnerShape, Ids
  <2>2. PICK op \in FileOps : fifo' = Posted(FileRunner, Work(op, asked + 1))
    BY <1>4 DEF FileCall
  <2>3. op \in FileKinds
    BY FileOpsAssumption
  <2>4. UNCHANGED run
    BY <1>4 DEF FileCall
  <2>5. /\ Work(op, asked + 1) \in Works /\ Work(op, asked + 1).kind \in G
        /\ Home(Work(op, asked + 1), FileRunner)
    BY <1>1, <2>1, <2>3, FileWork, HomeFacts
  <2> QED BY <1>0, <2>2, <2>4, <2>5 DEF Within, Goes, Posts
<1>5. ASSUME NEW t \in Threads, TaskStep(t), FileTask(t)
      PROVE  Within(G)
  <2>1. run[t].task.kind \in G
    BY <1>2, <1>3, <1>1, <1>5 DEF FileTask, FileOpen, Transfer, FileClose, FileWhole, FileReply,
       FileCallback, FileCallbackReturns, Is
  <2>2. CASE FileReply(t)
    <3>1. /\ run[t].task \in Works /\ run[t].task.kind \in FileKinds
          /\ run[t].locals \in Seq(Ids)
      BY <1>0, <2>2 DEF FileReply, Is, RunnerShape, Runs
    <3>2. run[t].task.id \in Ids
      BY <3>1, WorkTypes
    <3> DEFINE w == [kind |-> "done", id |-> run[t].task.id, op |-> run[t].task.kind,
                     result |-> run[t].locals]
    <3>3. w \in Works /\ w.kind = "done" /\ fifo' = Posted(IoRunner, w)
      BY <2>2, <3>1, <3>2 DEF Works, Answers, FileReply
    <3> HIDE DEF w
    <3> QED BY <1>0, <1>2, <1>5, <2>1, <3>3, TaskGoes, HomeFacts DEF Within, Posts
  <2>3. CASE ~FileReply(t)
    <3>1. UNCHANGED fifo
      BY <1>5, <2>3 DEF FileTask, FileOpen, Transfer, FileClose, FileWhole, FileCallback,
         FileCallbackReturns
    <3> QED BY <1>5, <2>1, <3>1, TaskGoes DEF Within, Posts
  <2> QED BY <2>2, <2>3
<1> QED BY <1>4, <1>5 DEF G

\* A thread takes up the first task of a queue.
Takes(t, r) ==
    /\ run[t] = Nothing /\ fifo[r] # <<>>
    /\ \A u \in Threads : run[u] # Nothing => run[u].runner # r
    /\ fifo'[r] = Tail(fifo[r]) /\ \A q \in Runners \ {r} : fifo'[q] = fifo[q]
    /\ Others(t) /\ run'[t] # Nothing /\ run'[t].task = Head(fifo[r])
    /\ run'[t].at = "begin" /\ run'[t].locals = <<>> /\ run'[t].runner = r
    /\ Head(fifo[r]) \in Works /\ Home(Head(fifo[r]), r)
    /\ UNCHANGED <<later, timerVars, busVars, fileVars>>

LEMMA TakeFacts ==
    ASSUME Shape, Placed, NEW r \in Runners, Take(r)
    PROVE  \E t \in Threads : Takes(t, r)
<1>0. RunnerShape
  BY DEF Shape
<1>1. PICK t \in Threads : Start(t, r, Owned(r))
  BY DEF Take, StartNext
<1>2. Head(fifo[r]) \in Queued(r)
  BY <1>0, <1>1, StartQueues
<1>3. fifo'[r] = Tail(fifo[r]) /\ \A q \in Runners \ {r} : fifo'[q] = fifo[q]
  BY <1>0, <1>1, StartFacts DEF RunnerShape
<1> QED BY <1>0, <1>1, <1>2, <1>3, StartFacts DEF Takes, Take, Placed, Start
-----------------------------------------------------------------------------
(* The token and the default runner of a task *)

\* A bus that is gone stays so: a publish is begun only while it is there.
LEMMA BusStaysGone ==
    ASSUME Shape, Placed, [Next]_vars, ~BusAlive
    PROVE  ~BusAlive'
<1>1. ASSUME ~busHandle', NEW G, "publish" \notin G, Within(G)
      PROVE  ~BusAlive'
  BY <1>1 DEF BusAlive, Is, Within, Goes
<1>2. /\ "publish" \notin {"tick"} /\ "publish" \notin {"task", "reply"}
      /\ "publish" \notin FileKinds \cup {"done"}
  BY DEF FileKinds, Whole, Changes
<1>3. ~busHandle
  BY DEF BusAlive
<1>4. ASSUME NEW c \in Callers, ClientCall(c) \/ CallStep(c)
      PROVE  ~BusAlive'
  <2>1. UNCHANGED run
    BY <1>4 DEF ClientCall, CallStep, TimerCall, TimerStart, TimerStop, DropHandler, TimerStep,
       StartSchedules, StartReturns, BusCall, Subscribe, Unsubscribe, Publish, Flush, DropBus,
       SubscribePosts, FileCall, PostTaskAndReply
  <2>2. ~busHandle'
    BY <1>3, <1>4 DEF ClientCall, CallStep, BusCall, Subscribe, Unsubscribe, Publish, Flush,
       DropBus, SubscribePosts, busVars
  <2> QED BY <2>1, <2>2 DEF BusAlive, Is
<1>5. ASSUME NEW t \in Threads, TaskStep(t)
      PROVE  ~BusAlive'
  <2>1. ~busHandle'
    BY <1>3, <1>5 DEF TaskStep, BusTask, BusUpdate, BusDispatch, Deliver, CallbackReturns,
       Delivered, FlushDone, DoneReturns, busVars
  <2>2. CASE ~BusTask(t)
    <3>1. Within({"tick"}) \/ Within({"task", "reply"}) \/ Within(FileKinds \cup {"done"})
      BY <1>5, <2>2, TimerWithin, ReplyWithin, FileWithin DEF TaskStep
    <3> QED BY <1>1, <1>2, <2>1, <3>1
  <2>3. CASE BusTask(t)
    <3>1. \A u \in Threads \ {t} : run'[u] = run[u]
      BY <1>5, TaskMoves DEF ThreadMoves, Moved, Ended, Others
    <3>2. ~(Deliver(t) \/ CallbackReturns(t) \/ Delivered(t))
      BY DEF BusAlive, Deliver, CallbackReturns, Delivered, Is
    <3>3. CASE BusUpdate(t) \/ BusDispatch(t) \/ DoneReturns(t)
      <4>1. Finish(t)
        BY <3>3 DEF BusUpdate, BusDispatch, DoneReturns
      <4>2. run'[t] = Nothing
        BY <4>1, EndedFacts DEF Shape, Ended
      <4> QED BY <2>1, <3>1, <4>2 DEF BusAlive, Is
    <3>4. CASE FlushDone(t)
      <4>1. run'[t] # Nothing => run'[t].task = run[t].task
        BY <1>5, TaskMoves DEF ThreadMoves, Moved, Ended
      <4>2. run[t].task.kind = "flush"
        BY <3>4 DEF FlushDone, Is
      <4> QED BY <2>1, <3>1, <4>1, <4>2 DEF BusAlive, Is
    <3> QED BY <2>3, <3>2, <3>3, <3>4 DEF BusTask
  <2> QED BY <2>2, <2>3
<1>6. ASSUME NEW r \in Runners, Take(r)
      PROVE  ~BusAlive'
  <2>1. PICK t \in Threads : Takes(t, r)
    BY <1>6, TakeFacts
  <2> QED BY <1>3, <2>1 DEF Takes, BusAlive, Is, Others, busVars
<1>7. ASSUME NEW r \in Runners, NEW w \in Range(later[r]), Deadline(r, w)
      PROVE  ~BusAlive'
  BY <1>7 DEF Deadline, Expire, BusAlive, Is, busVars
<1>8. CASE UNCHANGED vars
  BY <1>8 DEF vars, runnerVars, busVars, BusAlive, Is
<1> QED BY <1>4, <1>5, <1>6, <1>7, <1>8 DEF Next

\* Every task there is was there before, or came in with this step.
LEMMA TasksAppear ==
    ASSUME Shape, [Next]_vars
    PROVE  \A w \in Everywhere' : w \in Everywhere \/ \E r \in Runners : Enters(r, w)
<1>0. RunnerShape
  BY DEF Shape
<1>1. ASSUME NEW r \in Runners, NEW w \in Queued(r)'
      PROVE  w \in Queued(r) \/ \E q \in Runners : Enters(q, w)
  <2>1. CASE \A q \in Runners : Queued(q)' \subseteq Queued(q)
    BY <1>1, <2>1
  <2>2. ASSUME NEW q \in Runners, NEW v \in Works, Enters(q, v)
        PROVE  w \in Queued(r) \/ w = v
    BY <1>0, <1>1, <2>2, PostedQueues DEF Enters
  <2> QED BY <2>1, <2>2, QueueSteps
<1>2. ASSUME NEW u \in Threads, run'[u] # Nothing
      PROVE  run'[u].task \in Everywhere
  <2>1. CASE run[u] # Nothing /\ run'[u].task = run[u].task
    BY <2>1 DEF Everywhere, Running
  <2>2. ASSUME NEW t \in Threads, NEW r \in Runners, Start(t, r, Owned(r))
        PROVE  run'[u].task \in Everywhere
    <3>1. CASE u = t
      BY <1>0, <2>2, <3>1, StartFacts, StartQueues DEF Everywhere
    <3>2. CASE u # t
      BY <1>0, <1>2, <2>2, <3>2, StartFacts DEF Others, Everywhere, Running
    <3> QED BY <3>1, <3>2
  <2>3. CASE UNCHANGED run \/ \E t \in Threads : ThreadMoves(t) \/ Ended(t)
    BY <1>2, <2>1, <2>3 DEF ThreadMoves, Moved, Ended, Others
  <2> QED BY <2>2, <2>3, ThreadSteps
<1> QED BY <1>1, <1>2 DEF Everywhere, Running

\* What nobody holds any more is held by nobody ever after: a reference is had from the
\* default of a thread, and that is set while somebody holds the runner.
LEMMA RunnerStaysGone ==
    ASSUME Shape, Placed, [Next]_vars, NEW r \in Runners, ~HasRunner(r, Owned(r))
    PROVE  ~HasRunner(r, Owned(r))'
<1>0. RunnerShape /\ None # r
  BY RunnersAssumption DEF Shape
<1>1. /\ r # IoRunner /\ r = BusRunner /\ ~BusAlive
      /\ \A w \in Everywhere : ~(w.kind = "task" /\ w.id = r)
      /\ \A c \in Callers : default[c] # r
  BY DEF HasRunner, Owned, Captured
<1>2. ~BusAlive'
  BY <1>1, BusStaysGone
<1>3. \A w \in Everywhere' : ~(w.kind = "task" /\ w.id = r)
  BY <1>1, TasksAppear DEF Enters
<1>4. ASSUME NEW c \in Callers
      PROVE  default'[c] # r
  <2>1. ASSUME NEW t \in Threads, Ended(t)
        PROVE  default'[c] \in {default[c], None}
    BY <2>1 DEF Ended
  <2>2. ASSUME NEW t \in Threads, NEW q \in Runners, Start(t, q, Owned(q))
        PROVE  default'[c] = default[c] \/ (default'[c] = q /\ HasRunner(q, Owned(q)))
    BY <1>0, <2>2 DEF Start, DefaultHandle, RunnerShape
  <2> QED BY <1>0, <1>1, <2>1, <2>2, ThreadSteps DEF ThreadMoves
<1> QED BY <1>1, <1>2, <1>3, <1>4 DEF HasRunner, Owned, Captured

\* The inductive invariant: that the IO thread keeps its guards too.
Env ==
    /\ EnvironmentExact
    /\ token[IoThread] = IoRunner /\ default[IoThread] = IoRunner

LEMMA InitEnv == Init => Env
<1> SUFFICES ASSUME Init PROVE Env
  OBVIOUS
<1>1. /\ \A t \in Threads : run[t] = Nothing
      /\ token = [c \in Callers |-> IF c = IoThread THEN IoRunner ELSE None]
      /\ default = [c \in Callers |-> IF c = IoThread THEN IoRunner ELSE None]
  BY DEF Init, RunnersInit
<1>4. /\ IoThread \in Callers /\ \A t \in Workers : t \in Callers /\ t # IoThread
      /\ \A u \in Users : u \in Callers /\ u # IoThread
  BY RunnersAssumption DEF Callers, Threads
<1>5. EnvironmentExact
  BY <1>1, <1>4 DEF EnvironmentExact
<1> QED BY <1>1, <1>4, <1>5 DEF Env

\* What EnvironmentExact says of a thread.
Exact(t) ==
    IF run[t] = Nothing
      THEN t \in Workers => token[t] = None /\ default[t] = None
      ELSE LET r == run[t].runner IN
           /\ InSequence(t, r)
           /\ default[t] = r \/ (default[t] = None /\ ~HasRunner(r, Owned(r)))
           /\ run[t].task.kind = "reply" => InSequence(t, run[t].task.id)

LEMMA ExactSame ==
    ASSUME Shape, Placed, [Next]_vars, NEW t \in Threads, Exact(t),
           UNCHANGED <<token[t], default[t]>>,
           run'[t] = Nothing <=> run[t] = Nothing,
           run[t] # Nothing => run'[t].runner = run[t].runner /\ run'[t].task = run[t].task
    PROVE  Exact(t)'
<1>1. CASE run[t] = Nothing
  BY <1>1 DEF Exact
<1>2. CASE run[t] # Nothing
  <2>1. PICK r \in Runners : r = run[t].runner
    BY <1>2 DEF Shape, RunnerShape, Runs
  <2>2. ~HasRunner(r, Owned(r)) => ~HasRunner(r, Owned(r))'
    BY RunnerStaysGone
  <2> QED BY <1>2, <2>1, <2>2 DEF Exact, InSequence, TokenOf
<1> QED BY <1>1, <1>2

LEMMA EnvKept == Shape /\ Placed /\ Env /\ [Next]_vars => Env'
<1> SUFFICES ASSUME Shape, Placed, Env, [Next]_vars PROVE Env'
  OBVIOUS
<1>0. RunnerShape
  BY DEF Shape
<1>a. /\ \A t \in Threads : t \in Callers
      /\ \A u \in Users : u \in Callers /\ u \notin Threads
      /\ IoThread \in Threads /\ \A t \in Workers : t # IoThread
      /\ \A t \in Threads : t \in Workers \/ t = IoThread
  BY RunnersAssumption DEF Callers, Threads
<1>b. /\ \A t \in Threads : Exact(t)
      /\ \A u \in Users : token[u] = None /\ default[u] = None
  BY DEF Env, EnvironmentExact, Exact
<1>c. ASSUME \A t \in Threads : Exact(t)', \A u \in Users : UNCHANGED <<token[u], default[u]>>,
             UNCHANGED <<token[IoThread], default[IoThread]>>
      PROVE  Env'
  BY <1>b, <1>c DEF Env, EnvironmentExact, Exact
<1>1. CASE UNCHANGED <<run, token, default>>
  BY <1>1, <1>b, <1>c, ExactSame
<1>2. ASSUME NEW t \in Threads, ThreadMoves(t)
      PROVE  Env'
  <2>1. \A u \in Threads : Exact(u)'
    BY <1>b, <1>2, ExactSame DEF ThreadMoves, Moved, Others
  <2> QED BY <1>2, <1>c, <2>1 DEF ThreadMoves
<1>3. ASSUME NEW t \in Threads, run[t] # Nothing, Ended(t)
      PROVE  Env'
  <2>1. /\ \A u \in Threads \ {t} : UNCHANGED <<run[u], token[u], default[u]>>
        /\ \A u \in Users : UNCHANGED <<token[u], default[u]>>
        /\ run'[t] = Nothing
        /\ t \in Workers => token'[t] = None /\ default'[t] = None
        /\ UNCHANGED <<token[IoThread], default[IoThread]>>
    BY <1>a, <1>3 DEF Ended, Others
  <2>2. \A u \in Threads \ {t} : Exact(u)'
    BY <1>b, <2>1, ExactSame
  <2>3. Exact(t)'
    BY <2>1 DEF Exact
  <2> QED BY <1>c, <2>1, <2>2, <2>3
<1>4. ASSUME NEW t \in Threads, NEW r \in Runners, Start(t, r, Owned(r))
      PROVE  Env'
  <2>1. /\ run[t] = Nothing /\ Serves(t, r) /\ Others(t)
        /\ run'[t] # Nothing /\ run'[t].runner = r /\ run'[t].task = Head(fifo[r])
    BY <1>0, <1>4, StartFacts
  <2>2. /\ token'[t] = r
        /\ \A c \in Callers \ {t} : token'[c] = token[c] /\ default'[c] = default[c]
        /\ default'[t] = IF HasRunner(r, Owned(r)) THEN r ELSE default[t]
    BY <1>0, <1>a, <1>4 DEF Start, ScopedToken, TokenOf, DefaultHandle, RunnerShape
  <2>3. t # IoThread => default[t] = None
    BY <1>a, <1>b, <2>1 DEF Exact
  <2>4. t = IoThread => r = IoRunner /\ HasRunner(r, Owned(r))
    BY <2>1 DEF Serves, HasRunner
  <2>5. Head(fifo[r]).kind = "reply" => Head(fifo[r]).id = r
    <3>1. Head(fifo[r]) \in Queued(r)
      BY <1>0, <1>4, StartQueues
    <3> QED BY <3>1 DEF Placed, Home
  <2>6. default'[t] = r \/ (default'[t] = None /\ ~HasRunner(r, Owned(r))')
    BY <2>2, <2>3, <2>4, RunnerStaysGone
  <2>7. Exact(t)'
    BY <2>1, <2>2, <2>5, <2>6 DEF Exact, InSequence, TokenOf
  <2>8. \A u \in Threads \ {t} : Exact(u)'
    BY <1>a, <1>b, <2>1, <2>2, ExactSame DEF Others
  <2>9. UNCHANGED <<token[IoThread], default[IoThread]>>
    BY <1>a, <2>2, <2>4 DEF Env
  <2>10. \A u \in Users : UNCHANGED <<token[u], default[u]>>
    BY <1>a, <2>2
  <2> QED BY <1>c, <2>7, <2>8, <2>9, <2>10
<1> QED BY <1>1, <1>2, <1>3, <1>4, ThreadSteps

\* EnvironmentExact holds: a task sees the token and the default runner of its own
\* runner whatever ran on its thread before, and a reply runs on the sequence it was
\* asked from, as by Placed it waits only in that runner's queue. It holds no reference
\* to the runner there: one that is gone has no default to give, and then a task of it
\* runs without, for good, since by RunnerStaysGone nobody gets hold of it again.
THEOREM EnvironmentExactHolds == Spec => []EnvironmentExact
<1>1. Env => EnvironmentExact
  BY DEF Env
<1> QED BY <1>1, ShapeInvariant, PlacedInvariant, InitEnv, EnvKept, PTL DEF Spec
-----------------------------------------------------------------------------
(* Numbered tasks in a queue *)

\* Among the tasks of these kinds the earlier one has the smaller number.
Increasing(s, K) ==
    \A i, j \in DOMAIN s :
        i < j /\ s[i].kind \in K /\ s[j].kind \in K => s[i].id < s[j].id

LEMMA IncreasingAppend ==
    ASSUME NEW s \in Seq(Works), NEW w \in Works, NEW K, Increasing(s, K),
           w.kind \in K => \A v \in Range(s) : v.kind \in K => v.id < w.id
    PROVE  Increasing(Append(s, w), K)
<1>1. PICK n \in Nat : n = Len(s)
  BY LenProperties
<1>2. /\ DOMAIN s = 1 .. n /\ DOMAIN Append(s, w) = 1 .. n + 1
      /\ \A i \in 1 .. n : Append(s, w)[i] = s[i]
      /\ Append(s, w)[n + 1] = w
  BY <1>1, AppendProperties, LenProperties
<1>3. \A i \in 1 .. n : s[i] \in Range(s)
  BY <1>2 DEF Range
<1> DEFINE a == Append(s, w)
<1> HIDE DEF a
<1>4. ASSUME NEW i \in 1 .. n + 1, NEW j \in 1 .. n + 1, i < j,
             a[i].kind \in K, a[j].kind \in K
      PROVE  a[i].id < a[j].id
  <2>1. i \in 1 .. n /\ a[i] = s[i]
    BY <1>2, <1>4 DEF a
  <2>2. CASE j = n + 1
    <3>1. a[j] = w
      BY <1>2, <2>2 DEF a
    <3> QED BY <1>3, <1>4, <2>1, <3>1
  <2>3. CASE j # n + 1
    <3>1. j \in 1 .. n /\ a[j] = s[j]
      BY <1>2, <2>3 DEF a
    <3> QED BY <1>2, <1>4, <2>1, <3>1 DEF Increasing
  <2> QED BY <2>2, <2>3
<1> QED BY <1>2, <1>4 DEF Increasing, a

LEMMA IncreasingTail ==
    ASSUME NEW s \in Seq(Works), s # <<>>, NEW K, Increasing(s, K)
    PROVE  /\ Increasing(Tail(s), K)
           /\ Head(s).kind \in K => \A v \in Range(Tail(s)) : v.kind \in K => Head(s).id < v.id
<1>1. PICK n \in Nat : n = Len(s)
  BY LenProperties
<1>2. n # 0 /\ DOMAIN s = 1 .. n
  BY <1>1, EmptySeq, LenProperties
<1> DEFINE q == Tail(s)
<1>3. /\ DOMAIN q = 1 .. n - 1 /\ Head(s) = s[1]
      /\ \A i \in 1 .. n - 1 : q[i] = s[i + 1]
  BY <1>1, <1>2, HeadTailProperties, LenProperties
<1> HIDE DEF q
<1>4. \A i \in 1 .. n - 1 : i + 1 \in 1 .. n /\ 1 < i + 1 /\ 1 \in 1 .. n
  BY <1>2
<1>5. \A i, j \in 1 .. n - 1 : i < j => i + 1 < j + 1
  OBVIOUS
<1>6. Increasing(q, K)
  BY <1>2, <1>3, <1>4, <1>5 DEF Increasing
<1>7. \A i \in DOMAIN q : Head(s).kind \in K /\ q[i].kind \in K => Head(s).id < q[i].id
  BY <1>2, <1>3, <1>4 DEF Increasing
<1> QED BY <1>6, <1>7 DEF Range, q

\* What a posted task leaves of the tasks of kinds it is not of.
OfKinds(s, K) == {w \in Range(s) : w.kind \in K}

LEMMA PostKeeps ==
    ASSUME Shape, NEW G, Posts(G), NEW K, NEW r \in Runners, G \cap K = {}
    PROVE  /\ OfKinds(fifo'[r], K) = OfKinds(fifo[r], K)
           /\ Increasing(fifo[r], K) => Increasing(fifo'[r], K)
<1>0. RunnerShape /\ fifo[r] \in Seq(Works)
  BY DEF Shape, RunnerShape
<1>1. CASE fifo'[r] = fifo[r]
  BY <1>1
<1>2. ASSUME NEW w \in Works, w.kind \in G, fifo'[r] = Append(fifo[r], w)
      PROVE  /\ OfKinds(fifo'[r], K) = OfKinds(fifo[r], K)
             /\ Increasing(fifo[r], K) => Increasing(fifo'[r], K)
  <2>1. w.kind \notin K
    BY <1>2
  <2>2. Range(fifo'[r]) = Range(fifo[r]) \cup {w}
    BY <1>0, <1>2, AppendRange
  <2> QED BY <1>0, <1>2, <2>1, <2>2, IncreasingAppend DEF OfKinds
<1>3. fifo'[r] = fifo[r] \/ \E w \in Works : w.kind \in G /\ fifo'[r] = Append(fifo[r], w)
  <2>1. ASSUME NEW q \in Runners, NEW w \in Works, w.kind \in G, fifo' = Posted(q, w)
        PROVE  fifo'[r] = fifo[r] \/ fifo'[r] = Append(fifo[r], w)
    BY <1>0, <2>1, PostedFacts
  <2> QED BY <2>1 DEF Posts
<1> QED BY <1>1, <1>2, <1>3

LEMMA TakeKeeps ==
    ASSUME Shape, NEW t \in Threads, NEW q \in Runners, Takes(t, q), NEW K, NEW r \in Runners
    PROVE  /\ OfKinds(fifo'[r], K) \subseteq OfKinds(fifo[r], K)
           /\ r # q \/ Head(fifo[q]).kind \notin K => OfKinds(fifo'[r], K) = OfKinds(fifo[r], K)
           /\ OfKinds(fifo[q], K) \subseteq OfKinds(fifo'[q], K) \cup {Head(fifo[q])}
           /\ Increasing(fifo[r], K) => Increasing(fifo'[r], K)
           /\ Increasing(fifo[q], K) /\ Head(fifo[q]).kind \in K
                => \A v \in OfKinds(fifo'[q], K) : Head(fifo[q]).id < v.id
           /\ Head(fifo[q]) \in Range(fifo[q])
<1>1. /\ fifo[q] \in Seq(Works) /\ fifo[q] # <<>> /\ fifo'[q] = Tail(fifo[q])
      /\ r # q => fifo'[r] = fifo[r]
  BY DEF Shape, RunnerShape, Takes
<1>2. Range(fifo[q]) = Range(Tail(fifo[q])) \cup {Head(fifo[q])}
  <2>1. PICK n \in Nat : n = Len(fifo[q])
    BY <1>1, LenProperties
  <2>2. /\ n # 0 /\ DOMAIN fifo[q] = 1 .. n /\ DOMAIN Tail(fifo[q]) = 1 .. n - 1
        /\ Head(fifo[q]) = fifo[q][1] /\ \A i \in 1 .. n - 1 : Tail(fifo[q])[i] = fifo[q][i + 1]
    BY <1>1, <2>1, EmptySeq, HeadTailProperties, LenProperties
  <2> DEFINE s == fifo[q]
             b == Tail(s)
  <2>3. /\ DOMAIN s = 1 .. n /\ DOMAIN b = 1 .. n - 1 /\ Head(s) = s[1]
        /\ \A i \in 1 .. n - 1 : b[i] = s[i + 1]
    BY <2>2
  <2> HIDE DEF s, b
  <2>4. \A i \in 1 .. n - 1 : i + 1 \in 1 .. n
    BY <2>2
  <2>5. \A i \in 1 .. n : i = 1 \/ (i - 1 \in 1 .. n - 1 /\ (i - 1) + 1 = i)
    BY <2>2
  <2>6. 1 \in 1 .. n
    BY <2>2
  <2>7. \A i \in 1 .. n : s[i] = Head(s) \/ s[i] \in Range(b)
    BY <2>3, <2>5 DEF Range
  <2>8. \A i \in 1 .. n - 1 : b[i] \in Range(s)
    BY <2>3, <2>4 DEF Range
  <2> QED BY <2>3, <2>6, <2>7, <2>8 DEF Range, s, b
<1> QED BY <1>1, <1>2, IncreasingTail DEF OfKinds
-----------------------------------------------------------------------------
(* The file proxy *)

FileAll == FileKinds \cup {"done"}

OpsWaiting == OfKinds(fifo[FileRunner], FileKinds)
DonesWaiting == OfKinds(fifo[IoRunner], {"done"})
Operating == {t \in Threads : run[t] # Nothing /\ run[t].task.kind \in FileKinds}
Answering == {t \in Threads : run[t] # Nothing /\ run[t].task.kind = "done"}
Unanswered == Len(answered) + 1 .. asked

\* An operation that was not answered is in one of four places.
Outstanding(k) ==
    \/ \E w \in OpsWaiting \cup DonesWaiting : w.id = k
    \/ \E t \in Operating : run[t].task.id = k
    \/ \E t \in Answering : run[t].task.id = k /\ run[t].at = "begin"

\* They are passed in the order of the calls.
FileOrder ==
    /\ Increasing(fifo[FileRunner], FileKinds) /\ Increasing(fifo[IoRunner], {"done"})
    /\ \A w \in OpsWaiting \cup DonesWaiting : w.id \in Unanswered
    /\ \A d \in DonesWaiting, w \in OpsWaiting : d.id < w.id
    /\ \A t \in Operating : /\ run[t].task.id \in Unanswered
                            /\ \A w \in OpsWaiting : run[t].task.id < w.id
                            /\ \A d \in DonesWaiting : d.id < run[t].task.id
    /\ \A u \in Answering : /\ run[u].at \in {"begin", "user"} /\ run[u].task.id <= asked
                            /\ run[u].at = "begin" => run[u].task.id \in Unanswered
                            /\ \A w \in OpsWaiting \cup DonesWaiting : run[u].task.id < w.id
                            /\ \A t \in Operating : run[u].task.id < run[t].task.id
    /\ \A k \in Unanswered : Outstanding(k)
    /\ Len(answered) <= asked /\ answered = [k \in 1 .. Len(answered) |-> k]

Latest(S, n) == Max({0} \cup {k \in S : k < n})

\* A result that a read has, if it has one, is of the change before it, of those in S.
ReadRight(S, kind, id, result) ==
    kind \notin Changes /\ result # <<>> => result = <<Latest(S, id)>>

FileData ==
    /\ changed \subseteq 1 .. asked /\ content = Max({0} \cup changed)
    /\ \A w \in OpsWaiting, k \in changed : k < w.id
    /\ \A t \in Operating :
          /\ run[t].at \in {"begin", "transfer", "close", "reply"}
          /\ \A k \in changed : /\ k <= run[t].task.id
                                /\ \/ run[t].at \in {"begin", "transfer"}
                                   \/ run[t].task.kind \notin Changes
                                   => k < run[t].task.id
          /\ run[t].at \in {"close", "reply"}
               => ReadRight(changed, run[t].task.kind, run[t].task.id, run[t].locals)
    /\ \A d \in DonesWaiting : ReadRight(changed, d.op, d.id, d.result)
    /\ \A u \in Answering :
          ReadRight(changed, run[u].task.op, run[u].task.id, run[u].task.result)
    /\ open = {run[t].task.id : t \in {u \in Operating : run[u].at \in {"transfer", "close"}}}

Files == FileOrder /\ FileData

LEMMA FileRunners ==
    /\ FileRunner \in Runners /\ IoRunner \in Runners /\ FileRunner # IoRunner
    /\ IoThread \in Threads /\ "done" \notin FileKinds
    /\ Whole \subseteq FileKinds /\ Changes \subseteq FileKinds
BY ClientsAssumption, RunnersAssumption DEF Runners, Threads, FileKinds, Whole, Changes

\* One operation and one callback at a time.
LEMMA OneFile ==
    ASSUME Shape, Placed
    PROVE  /\ \A t \in Operating : Operating = {t}
           /\ \A t \in Answering : Answering = {t}
           /\ Operating \cap Answering = {}
<1>1. \A t \in Operating : run[t].runner = FileRunner
  BY DEF Operating, Placed, Home
<1>2. \A t \in Answering : run[t].runner = IoRunner
  BY DEF Answering, Placed, Home
<1> QED BY <1>1, <1>2, FileRunners DEF Placed, Operating, Answering

\* What the tasks of others do to the files: nothing.
LEMMA FilesSame ==
    ASSUME Files, OpsWaiting' = OpsWaiting, DonesWaiting' = DonesWaiting,
           Operating' = Operating, Answering' = Answering,
           \A t \in Operating \cup Answering : run'[t] = run[t],
           Increasing(fifo'[FileRunner], FileKinds), Increasing(fifo'[IoRunner], {"done"}),
           UNCHANGED fileVars
    PROVE  Files'
<1>1. Unanswered' = Unanswered
  BY DEF Unanswered, fileVars
<1>2. \A k \in Unanswered : Outstanding(k)'
  BY DEF Files, FileOrder, Outstanding
<1>3. FileOrder'
  BY <1>1, <1>2 DEF Files, FileOrder, fileVars
<1>4. FileData'
  BY DEF Files, FileData, fileVars
<1> QED BY <1>3, <1>4 DEF Files

LEMMA FilesWithin ==
    ASSUME Shape, Files, NEW G, G \cap FileAll = {}, Within(G), UNCHANGED fileVars
    PROVE  Files'
<1>1. /\ OpsWaiting' = OpsWaiting /\ DonesWaiting' = DonesWaiting
      /\ Increasing(fifo'[FileRunner], FileKinds) /\ Increasing(fifo'[IoRunner], {"done"})
  <2>1. G \cap FileKinds = {} /\ G \cap {"done"} = {}
    BY DEF FileAll
  <2> QED BY <2>1, PostKeeps, FileRunners DEF Within, OpsWaiting, DonesWaiting, Files, FileOrder
<1>2. \A t \in Threads : run'[t] = run[t] \/ (t \notin Operating' \cup Answering' /\ t \notin Operating \cup Answering)
  BY DEF Within, Goes, FileAll, Operating, Answering
<1>3. /\ Operating' = Operating /\ Answering' = Answering
      /\ \A t \in Operating \cup Answering : run'[t] = run[t]
  BY <1>2 DEF Operating, Answering
<1> QED BY <1>1, <1>3, FilesSame

\* What a posted task adds to the tasks of its kind.
LEMMA PostAdds ==
    ASSUME Shape, NEW r \in Runners, NEW w \in Works, fifo' = Posted(r, w),
           NEW K, w.kind \in K
    PROVE  /\ OfKinds(fifo'[r], K) = OfKinds(fifo[r], K) \cup {w}
           /\ Increasing(fifo[r], K) /\ (\A v \in OfKinds(fifo[r], K) : v.id < w.id)
                => Increasing(fifo'[r], K)
           /\ \A q \in Runners \ {r} : fifo'[q] = fifo[q]
<1>0. RunnerShape /\ fifo[r] \in Seq(Works)
  BY DEF Shape, RunnerShape
<1>1. fifo'[r] = Append(fifo[r], w) /\ \A q \in Runners \ {r} : fifo'[q] = fifo[q]
  BY <1>0, PostedFacts
<1>2. Range(fifo'[r]) = Range(fifo[r]) \cup {w}
  BY <1>0, <1>1, AppendRange
<1> QED BY <1>0, <1>1, <1>2, IncreasingAppend DEF OfKinds

LEMMA LatestFacts ==
    ASSUME NEW S \in SUBSET Nat, NEW o \in Nat
    PROVE  /\ \A n \in Nat : n <= o => Latest(S \cup {o}, n) = Latest(S, n)
           /\ (\A k \in S : k <= o) => Max({0} \cup (S \cup {o})) = o
           /\ (\A k \in S : k < o) => Latest(S, o) = Max({0} \cup S)
<1>1. ASSUME NEW n \in Nat, n <= o PROVE Latest(S \cup {o}, n) = Latest(S, n)
  <2>1. {k \in S \cup {o} : k < n} = {k \in S : k < n}
    BY <1>1
  <2> QED BY <2>1 DEF Latest
<1>2. ASSUME \A k \in S : k <= o PROVE Max({0} \cup (S \cup {o})) = o
  <2> DEFINE M == {0} \cup (S \cup {o})
  <2>1. o \in M /\ M \subseteq Nat /\ \A y \in M : o >= y
    BY <1>2
  <2> HIDE DEF M
  <2>2. \A x \in M : (\A y \in M : x >= y) => x = o
    BY <2>1
  <2>3. Max(M) = o
    BY <2>1, <2>2 DEF Max
  <2> QED BY <2>3 DEF M
<1>3. ASSUME \A k \in S : k < o PROVE Latest(S, o) = Max({0} \cup S)
  <2>1. {k \in S : k < o} = S
    BY <1>3
  <2> QED BY <2>1 DEF Latest
<1> QED BY <1>1, <1>2, <1>3

LEMMA FileCallKeeps ==
    ASSUME Shape, Placed, Files, NEW c \in Callers, FileCall(c)
    PROVE  Files'
<1>0. RunnerShape /\ FileShape
  BY DEF Shape
<1>1. PICK op \in FileOps : fifo' = Posted(FileRunner, Work(op, asked + 1))
  BY DEF FileCall
<1>2. asked \in Nat /\ asked + 1 \in Ids /\ op \in FileKinds
  BY FileOpsAssumption, RunnersAssumption
     DEF FileCall, Shape, FileShape, MayCall, RunnerShape, Ids
<1>3. PICK w \in Works : /\ fifo' = Posted(FileRunner, w) /\ w.kind \in FileKinds
                         /\ w.id = asked + 1
  BY <1>1, <1>2, FileWork
<1>4. PICK n \in Nat : n = Len(answered)
  BY <1>0, LenProperties DEF FileShape
<1>5. /\ Unanswered = n + 1 .. asked /\ Unanswered' = n + 1 .. asked + 1 /\ n <= asked
      /\ UNCHANGED <<run, answered, open, content, changed>> /\ asked' = asked + 1
  BY <1>4 DEF FileCall, Unanswered, Files, FileOrder
<1>6. Unanswered' = Unanswered \cup {w.id} /\ w.id \notin Unanswered
  BY <1>2, <1>3, <1>5
<1>7. \A k \in Unanswered : k < w.id
  BY <1>2, <1>3, <1>5
<1>8. /\ OpsWaiting' = OpsWaiting \cup {w} /\ DonesWaiting' = DonesWaiting
      /\ \A v \in OpsWaiting : v.id < w.id
      /\ Increasing(fifo'[FileRunner], FileKinds) /\ Increasing(fifo'[IoRunner], {"done"})
  <2>1. \A v \in OpsWaiting : v.id < w.id
    BY <1>7 DEF Files, FileOrder
  <2> QED BY <1>3, <2>1, PostAdds, FileRunners DEF OpsWaiting, DonesWaiting, Files, FileOrder
<1>9. Operating' = Operating /\ Answering' = Answering
  BY <1>5 DEF Operating, Answering
<1>10. \A k \in Unanswered' : Outstanding(k)'
  <2>1. \A k \in Unanswered : Outstanding(k)'
    BY <1>5, <1>8, <1>9 DEF Files, FileOrder, Outstanding
  <2>2. Outstanding(w.id)'
    BY <1>8 DEF Outstanding
  <2> QED BY <1>6, <2>1, <2>2
<1>11. /\ \A v \in OpsWaiting' \cup DonesWaiting' : v.id \in Unanswered'
       /\ \A d \in DonesWaiting', v \in OpsWaiting' : d.id < v.id
       /\ \A t \in Operating' : /\ run'[t].task.id \in Unanswered'
                                /\ \A v \in OpsWaiting' : run'[t].task.id < v.id
                                /\ \A d \in DonesWaiting' : d.id < run'[t].task.id
  BY <1>5, <1>6, <1>7, <1>8, <1>9 DEF Files, FileOrder
<1>12. \A u \in Answering' : /\ run'[u].at \in {"begin", "user"} /\ run'[u].task.id <= asked'
                             /\ run'[u].at = "begin" => run'[u].task.id \in Unanswered'
                             /\ \A v \in OpsWaiting' \cup DonesWaiting' : run'[u].task.id < v.id
                             /\ \A t \in Operating' : run'[u].task.id < run'[t].task.id
  <2>1. ASSUME NEW u \in Answering PROVE run[u].task.id < w.id /\ run[u].task.id <= asked'
    <3>0. run[u].task \in Works /\ run[u].task.kind = "done"
      BY <1>0 DEF Answering, RunnerShape, Runs
    <3>1. PICK m \in Nat : m = run[u].task.id
      BY <3>0, WorkTypes DEF Ids
    <3>2. m <= asked
      BY <2>1, <3>1 DEF Files, FileOrder
    <3> QED BY <1>2, <1>3, <1>5, <3>1, <3>2
  <2> QED BY <1>5, <1>6, <1>8, <1>9, <2>1 DEF Files, FileOrder
<1>13. FileOrder'
  <2>1. Len(answered') <= asked' /\ answered' = [k \in 1 .. Len(answered') |-> k]
    BY <1>2, <1>4, <1>5 DEF Files, FileOrder
  <2> QED BY <1>8, <1>10, <1>11, <1>12, <2>1 DEF FileOrder
<1>14. FileData'
  <2>1. changed \subseteq 1 .. asked' /\ \A k \in changed : k < w.id
    BY <1>2, <1>3, <1>5 DEF Files, FileData
  <2>2. \A v \in OpsWaiting', k \in changed : k < v.id
    BY <1>8, <2>1 DEF Files, FileData
  <2> QED BY <1>5, <1>8, <1>9, <2>1, <2>2 DEF Files, FileData
<1> QED BY <1>13, <1>14 DEF Files

\* A step of the operation that a worker is in.
LEMMA OperationKeeps ==
    ASSUME Shape, Placed, Files, NEW t \in Operating, NEW a, NEW l, Moved(t, a, l),
           UNCHANGED <<fifo, asked, answered>>,
           a \in {"transfer", "close", "reply"},
           a = "transfer" => run[t].at \in {"begin", "transfer"},
           \/ UNCHANGED <<content, changed>>
           \/ /\ content' = run[t].task.id /\ changed' = changed \cup {run[t].task.id}
              /\ run[t].task.kind \in Changes /\ a # "transfer",
           a # "transfer" => ReadRight(changed, run[t].task.kind, run[t].task.id, l),
           open' = IF a = "reply" THEN {} ELSE {run[t].task.id}
    PROVE  Files'
<1>0. RunnerShape /\ FileShape
  BY DEF Shape
<1>1. Operating = {t} /\ t \notin Answering /\ t \in Threads
  BY OneFile DEF Operating
<1>2. /\ Operating' = Operating /\ Answering' = Answering
      /\ OpsWaiting' = OpsWaiting /\ DonesWaiting' = DonesWaiting /\ Unanswered' = Unanswered
      /\ \A u \in Answering : run'[u] = run[u]
      /\ run'[t].task = run[t].task /\ run'[t].at = a /\ run'[t].locals = l
  BY <1>1 DEF Moved, Others, Operating, Answering, OpsWaiting, DonesWaiting, Unanswered
<1>3. FileOrder'
  <2>1. \A k \in Unanswered' : Outstanding(k)'
    BY <1>1, <1>2 DEF Files, FileOrder, Outstanding
  <2> QED BY <1>1, <1>2, <2>1 DEF Files, FileOrder
<1>4. PICK o \in Nat : o = run[t].task.id
  BY <1>0, <1>1, WorkTypes DEF Operating, RunnerShape, Runs, Ids
<1>5. /\ o \in Unanswered /\ \A w \in OpsWaiting : o < w.id
      /\ \A d \in DonesWaiting : d.id < o /\ d.id \in Nat
      /\ \A u \in Answering : run[u].task.id < o /\ run[u].task.id \in Nat
  <2>1. \A d \in DonesWaiting : d.id \in Nat
    <3>1. \A d \in DonesWaiting : d \in Works /\ d.kind = "done"
      BY <1>0, FileRunners, RangeOfSeq DEF DonesWaiting, OfKinds, RunnerShape
    <3> QED BY <3>1, WorkTypes DEF Ids
  <2>2. \A u \in Answering : run[u].task.id \in Nat
    BY <1>0, WorkTypes DEF Answering, RunnerShape, Runs, Ids
  <2> QED BY <1>1, <1>4, <2>1, <2>2 DEF Files, FileOrder
<1>6. changed \in SUBSET Nat /\ asked \in Nat
  BY <1>0 DEF FileShape, Ids
<1>7. o \in 1 .. asked
  <2>1. PICK n \in Nat : n = Len(answered)
    BY <1>0, LenProperties DEF FileShape
  <2> QED BY <1>5, <1>6, <2>1 DEF Unanswered
<1>8. \A k \in changed : k <= o
  BY <1>1, <1>4 DEF Files, FileData
<1>9. /\ changed' \subseteq 1 .. asked /\ content' = Max({0} \cup changed')
      /\ \A w \in OpsWaiting, k \in changed' : k < w.id
      /\ \A k \in changed' : k <= o
      /\ \A n \in Nat : n <= o => Latest(changed', n) = Latest(changed, n)
  <2>1. CASE UNCHANGED <<content, changed>>
    BY <1>8, <2>1 DEF Files, FileData
  <2>2. CASE content' = o /\ changed' = changed \cup {o}
    <3>1. /\ Max({0} \cup changed') = o
          /\ \A n \in Nat : n <= o => Latest(changed', n) = Latest(changed, n)
      BY <1>6, <1>8, <2>2, LatestFacts
    <3>2. changed' \subseteq 1 .. asked
      BY <1>7, <2>2 DEF Files, FileData
    <3>3. \A w \in OpsWaiting, k \in changed' : k < w.id
      BY <1>5, <2>2 DEF Files, FileData
    <3>4. \A k \in changed' : k <= o
      BY <1>8, <2>2
    <3> QED BY <2>2, <3>1, <3>2, <3>3, <3>4
  <2> QED BY <1>4, <2>1, <2>2
<1>10. a = "transfer" \/ run[t].task.kind \notin Changes => \A k \in changed' : k < o
  BY <1>1, <1>4 DEF Files, FileData
<1>11. /\ \A d \in DonesWaiting : ReadRight(changed', d.op, d.id, d.result)
       /\ \A u \in Answering :
             ReadRight(changed', run[u].task.op, run[u].task.id, run[u].task.result)
       /\ a # "transfer" => ReadRight(changed', run[t].task.kind, o, l)
  <2>1. \A kind, result : \A n \in Nat :
          n <= o /\ ReadRight(changed, kind, n, result) => ReadRight(changed', kind, n, result)
    BY <1>9 DEF ReadRight
  <2>2. \A d \in DonesWaiting : ReadRight(changed, d.op, d.id, d.result) /\ d.id <= o /\ d.id \in Nat
    BY <1>5 DEF Files, FileData
  <2>3. \A u \in Answering :
           /\ ReadRight(changed, run[u].task.op, run[u].task.id, run[u].task.result)
           /\ run[u].task.id <= o /\ run[u].task.id \in Nat
    BY <1>5 DEF Files, FileData
  <2> QED BY <1>4, <2>1, <2>2, <2>3
<1>12. open' = {run'[u].task.id : u \in {v \in Operating' : run'[v].at \in {"transfer", "close"}}}
  BY <1>1, <1>2
<1>13. FileData'
  <2>1. \A u \in Operating' :
          /\ run'[u].at \in {"begin", "transfer", "close", "reply"}
          /\ \A k \in changed' : /\ k <= run'[u].task.id
                                 /\ \/ run'[u].at \in {"begin", "transfer"}
                                    \/ run'[u].task.kind \notin Changes
                                    => k < run'[u].task.id
          /\ run'[u].at \in {"close", "reply"}
               => ReadRight(changed', run'[u].task.kind, run'[u].task.id, run'[u].locals)
    BY <1>1, <1>2, <1>4, <1>9, <1>10, <1>11
  <2> QED BY <1>2, <1>9, <1>11, <1>12, <2>1 DEF FileData
<1> QED BY <1>3, <1>13 DEF Files

\* What an operation reads is the content that was changed last before it.
LEMMA ContentRight ==
    ASSUME Shape, Files, NEW t \in Operating, NEW l,
           \/ l = <<>>
           \/ l = <<content>> /\ run[t].at \in {"begin", "transfer"}
    PROVE  ReadRight(changed, run[t].task.kind, run[t].task.id, l)
<1>1. PICK o \in Nat : o = run[t].task.id
  BY WorkTypes DEF Shape, Operating, RunnerShape, Runs, Ids
<1>2. CASE l = <<>>
  BY <1>2 DEF ReadRight
<1>3. CASE l = <<content>> /\ run[t].at \in {"begin", "transfer"}
  <2>1. \A k \in changed : k < o
    BY <1>1, <1>3 DEF Files, FileData
  <2>2. changed \in SUBSET Nat
    BY DEF Shape, FileShape, Ids
  <2>3. content = Latest(changed, o)
    BY <2>1, <2>2, LatestFacts DEF Files, FileData
  <2> QED BY <1>1, <1>3, <2>3 DEF ReadRight
<1> QED BY <1>2, <1>3

LEMMA FileStepKeeps ==
    ASSUME Shape, Placed, Files, NEW t \in Threads,
           FileOpen(t) \/ Transfer(t) \/ FileClose(t) \/ FileWhole(t)
    PROVE  Files'
<1>0. RunnerShape
  BY DEF Shape
<1>1. /\ t \in Operating /\ run[t] # Nothing /\ UNCHANGED <<fifo, asked, answered>>
      /\ run[t].locals \in Seq(Ids)
  BY <1>0, FileRunners DEF FileOpen, Transfer, FileClose, FileWhole, Is, Operating,
     RunnerShape, Runs
<1>2. Operating = {t}
  BY <1>1, OneFile
<1>3. open = IF run[t].at \in {"transfer", "close"} THEN {run[t].task.id} ELSE {}
  BY <1>2 DEF Files, FileData
<1>4. ASSUME NEW a \in Points, NEW ok \in BOOLEAN, Result(t, a, ok)
      PROVE  Moved(t, a, IF ok THEN <<content>> ELSE <<>>)
  <2> DEFINE l == IF ok THEN <<content>> ELSE <<>>
  <2>1. l \in Seq(Ids)
    BY EmptySeq DEF Shape, FileShape
  <2>2. run' = [run EXCEPT ![t].at = a, ![t].locals = l]
    BY <1>4 DEF Result
  <2> HIDE DEF l
  <2>3. Moved(t, a, l)
    BY <1>0, <1>1, <1>4, <2>1, <2>2, MovedFacts
  <2> QED BY <2>3 DEF l
<1>5. \A ok \in BOOLEAN : run[t].at \in {"begin", "transfer"} =>
         ReadRight(changed, run[t].task.kind, run[t].task.id, IF ok THEN <<content>> ELSE <<>>)
  BY <1>1, ContentRight
<1>6. {"reply", "transfer", "close"} \subseteq Points
  BY DEF Points
<1>7. CASE FileOpen(t)
  <2>1. run[t].at = "begin" /\ UNCHANGED <<content, changed>>
    BY <1>7 DEF FileOpen, Is
  <2>2. CASE Result(t, "reply", FALSE) /\ UNCHANGED open
    <3>1. Moved(t, "reply", <<>>) /\ open' = {}
      BY <1>3, <1>4, <1>6, <2>1, <2>2
    <3>2. ReadRight(changed, run[t].task.kind, run[t].task.id, <<>>)
      BY DEF ReadRight
    <3> QED BY <1>1, <2>1, <3>1, <3>2, OperationKeeps
  <2>3. CASE MoveTo(t, "transfer") /\ open' = open \cup {run[t].task.id}
    <3>1. Moved(t, "transfer", run[t].locals) /\ open' = {run[t].task.id}
      BY <1>0, <1>1, <1>3, <1>6, <2>1, <2>3, MoveToFacts
    <3> QED BY <1>1, <2>1, <3>1, OperationKeeps
  <2> QED BY <1>7, <2>2, <2>3 DEF FileOpen
<1>8. CASE Transfer(t)
  <2>1. run[t].at = "transfer" /\ open' = {run[t].task.id}
    BY <1>3, <1>8 DEF Transfer, Is
  <2>2. PICK ok \in BOOLEAN : /\ Result(t, "close", ok)
                              /\ \/ NoChange
                                 \/ Change(t) /\ run[t].task.kind \in Changes
    BY <1>8 DEF Transfer
  <2> DEFINE l == IF ok THEN <<content>> ELSE <<>>
  <2>3. Moved(t, "close", l) /\ ReadRight(changed, run[t].task.kind, run[t].task.id, l)
    BY <1>4, <1>5, <1>6, <2>1, <2>2
  <2> HIDE DEF l
  <2> QED BY <1>1, <2>1, <2>2, <2>3, OperationKeeps DEF Change, NoChange
<1>9. CASE FileWhole(t)
  <2>1. run[t].at = "begin" /\ open' = {}
    BY <1>3, <1>9 DEF FileWhole, Is
  <2>2. PICK ok \in BOOLEAN : /\ Result(t, "reply", ok)
                              /\ \/ NoChange
                                 \/ Change(t) /\ run[t].task.kind \in Changes
    BY <1>9 DEF FileWhole
  <2> DEFINE l == IF ok THEN <<content>> ELSE <<>>
  <2>3. Moved(t, "reply", l) /\ ReadRight(changed, run[t].task.kind, run[t].task.id, l)
    BY <1>4, <1>5, <1>6, <2>1, <2>2
  <2> HIDE DEF l
  <2> QED BY <1>1, <2>1, <2>2, <2>3, OperationKeeps DEF Change, NoChange
<1>10. CASE FileClose(t)
  <2>1. /\ run[t].at = "close" /\ open' = {} /\ UNCHANGED <<content, changed>>
        /\ Moved(t, "reply", run[t].locals)
    BY <1>0, <1>1, <1>3, <1>6, <1>10, MoveToFacts DEF FileClose, Is
  <2>2. ReadRight(changed, run[t].task.kind, run[t].task.id, run[t].locals)
    BY <1>1, <2>1 DEF Files, FileData
  <2> QED BY <1>1, <2>1, <2>2, OperationKeeps
<1> QED BY <1>7, <1>8, <1>9, <1>10

LEMMA FileReplyKeeps ==
    ASSUME Shape, Placed, Files, NEW t \in Threads, FileReply(t)
    PROVE  Files'
<1>0. RunnerShape /\ FileShape
  BY DEF Shape
<1>1. /\ t \in Operating /\ run[t].at = "reply" /\ run[t].locals \in Seq(Ids)
      /\ run[t].task \in Works /\ run[t].task.kind \in FileKinds /\ UNCHANGED fileVars
      /\ Ended(t)
  BY <1>0, EndedFacts DEF FileReply, Is, Operating, RunnerShape, Runs
<1>2. Operating = {t} /\ t \notin Answering
  BY <1>1, OneFile
<1>3. run[t].task.id \in Ids
  BY <1>1, WorkTypes
<1>4. PICK o \in Nat : o = run[t].task.id
  BY <1>3 DEF Ids
<1> DEFINE w == [kind |-> "done", id |-> run[t].task.id, op |-> run[t].task.kind,
                 result |-> run[t].locals]
<1>5. /\ w \in Works /\ w.kind = "done" /\ fifo' = Posted(IoRunner, w)
      /\ w.id = o /\ w.op = run[t].task.kind /\ w.result = run[t].locals
  BY <1>1, <1>3, <1>4 DEF Works, Answers, FileReply
<1> HIDE DEF w
<1>6. /\ o \in Unanswered /\ \A v \in OpsWaiting : o < v.id
      /\ \A d \in DonesWaiting : d.id < o
      /\ \A u \in Answering : run[u].task.id < o
  BY <1>1, <1>4 DEF Files, FileOrder
<1>7. /\ DonesWaiting' = DonesWaiting \cup {w} /\ OpsWaiting' = OpsWaiting
      /\ Increasing(fifo'[FileRunner], FileKinds) /\ Increasing(fifo'[IoRunner], {"done"})
  <2>1. /\ \A d \in OfKinds(fifo[IoRunner], {"done"}) : d.id < w.id
        /\ Increasing(fifo[FileRunner], FileKinds) /\ Increasing(fifo[IoRunner], {"done"})
    BY <1>5, <1>6 DEF DonesWaiting, Files, FileOrder
  <2>2. /\ OfKinds(fifo'[IoRunner], {"done"}) = OfKinds(fifo[IoRunner], {"done"}) \cup {w}
        /\ Increasing(fifo'[IoRunner], {"done"}) /\ fifo'[FileRunner] = fifo[FileRunner]
    BY <1>5, <2>1, PostAdds, FileRunners
  <2> QED BY <2>1, <2>2 DEF DonesWaiting, OpsWaiting
<1>8. /\ Operating' = {} /\ Answering' = Answering /\ Unanswered' = Unanswered
      /\ \A u \in Answering : run'[u] = run[u]
  BY <1>1, <1>2 DEF Ended, Others, Operating, Answering, Unanswered, fileVars
<1>9. \A k \in Unanswered' : Outstanding(k)'
  BY <1>2, <1>4, <1>5, <1>7, <1>8 DEF Files, FileOrder, Outstanding
<1>10. \A u \in Answering' : /\ run'[u].at \in {"begin", "user"} /\ run'[u].task.id <= asked'
                             /\ run'[u].at = "begin" => run'[u].task.id \in Unanswered'
                             /\ \A v \in OpsWaiting' \cup DonesWaiting' : run'[u].task.id < v.id
  BY <1>1, <1>5, <1>6, <1>7, <1>8 DEF Files, FileOrder, fileVars
<1>11. /\ \A v \in OpsWaiting' \cup DonesWaiting' : v.id \in Unanswered'
       /\ \A d \in DonesWaiting', v \in OpsWaiting' : d.id < v.id
  BY <1>5, <1>6, <1>7, <1>8 DEF Files, FileOrder
<1>12. FileOrder'
  BY <1>1, <1>7, <1>8, <1>9, <1>10, <1>11 DEF Files, FileOrder, fileVars
<1>13. ReadRight(changed', w.op, w.id, w.result)
  BY <1>1, <1>4, <1>5 DEF Files, FileData, fileVars
<1>14. open' = {}
  BY <1>1, <1>2 DEF Files, FileData, fileVars
<1>15. FileData'
  BY <1>1, <1>7, <1>8, <1>13, <1>14 DEF Files, FileData, fileVars
<1> QED BY <1>12, <1>15 DEF Files

LEMMA FileCallbackKeeps ==
    ASSUME Shape, Placed, Files, NEW t \in Threads, FileCallback(t)
    PROVE  Files'
<1>0. RunnerShape /\ FileShape
  BY DEF Shape
<1>1. /\ t \in Answering /\ run[t].at = "begin" /\ run[t] # Nothing
      /\ UNCHANGED <<fifo, asked, open, content, changed>>
      /\ answered' = Append(answered, run[t].task.id) /\ MoveTo(t, "user")
  BY DEF FileCallback, Is, Answering
<1>2. Answering = {t} /\ t \notin Operating /\ Moved(t, "user", run[t].locals)
  BY <1>0, <1>1, OneFile, MoveToFacts DEF Points
<1>3. /\ OpsWaiting' = OpsWaiting /\ DonesWaiting' = DonesWaiting
      /\ Operating' = Operating /\ Answering' = {t}
      /\ \A u \in Operating : run'[u] = run[u]
      /\ run'[t].task = run[t].task /\ run'[t].at = "user"
  BY <1>1, <1>2 DEF Moved, Others, Operating, Answering, OpsWaiting, DonesWaiting
<1>4. PICK n \in Nat, o \in Nat, m \in Nat :
         n = Len(answered) /\ o = run[t].task.id /\ m = asked
  BY <1>0, <1>1, LenProperties, WorkTypes DEF FileShape, Answering, RunnerShape, Runs, Ids
<1>5. Unanswered = n + 1 .. m /\ o \in n + 1 .. m
  BY <1>1, <1>4 DEF Unanswered, Files, FileOrder
<1>6. o = n + 1
  <2>1. n + 1 \in Unanswered
    BY <1>5
  <2>2. Outstanding(n + 1)
    BY <2>1 DEF Files, FileOrder
  <2>3. \A w \in OpsWaiting \cup DonesWaiting : o < w.id
    BY <1>1, <1>4 DEF Files, FileOrder
  <2>4. \A u \in Operating : o < run[u].task.id
    BY <1>1, <1>4 DEF Files, FileOrder
  <2>5. ~(o < n + 1)
    BY <1>5
  <2> QED BY <1>2, <1>4, <2>2, <2>3, <2>4, <2>5 DEF Outstanding
<1>7. Len(answered') = n + 1 /\ answered' = [k \in 1 .. n + 1 |-> k]
  <2>1. answered \in Seq(Ids) /\ o \in Ids
    BY <1>0, <1>1, <1>4, WorkTypes DEF FileShape, Answering, RunnerShape, Runs
  <2>2. /\ answered' \in Seq(Ids) /\ Len(answered') = n + 1
        /\ \A i \in 1 .. n : answered'[i] = answered[i]
        /\ answered'[n + 1] = o
    BY <1>1, <1>4, <2>1, AppendProperties
  <2>3. answered = [k \in 1 .. n |-> k]
    BY <1>4 DEF Files, FileOrder
  <2>4. DOMAIN answered' = 1 .. n + 1 /\ answered' \in [1 .. n + 1 -> Ids]
    BY <2>2, LenProperties
  <2>5. \A i \in 1 .. n + 1 : answered'[i] = i
    <3>1. \A i \in 1 .. n : answered'[i] = i
      BY <2>2, <2>3
    <3>2. \A i \in 1 .. n + 1 : i \in 1 .. n \/ i = n + 1
      OBVIOUS
    <3> QED BY <1>6, <2>2, <3>1, <3>2
  <2> QED BY <2>2, <2>4, <2>5
<1>8. Unanswered' = Unanswered \ {o}
  <2>1. Unanswered' = n + 1 + 1 .. m
    BY <1>1, <1>4, <1>7 DEF Unanswered
  <2> QED BY <1>5, <1>6, <2>1
<1>9. \A k \in Unanswered' : Outstanding(k)'
  BY <1>2, <1>3, <1>4, <1>8 DEF Files, FileOrder, Outstanding
<1>10. /\ \A v \in OpsWaiting \cup DonesWaiting : v.id \in Unanswered' /\ o < v.id
       /\ \A u \in Operating : run[u].task.id \in Unanswered' /\ o < run[u].task.id
  <2>1. /\ \A v \in OpsWaiting \cup DonesWaiting : v.id \in Unanswered /\ o < v.id
        /\ \A u \in Operating : run[u].task.id \in Unanswered /\ o < run[u].task.id
    BY <1>1, <1>4 DEF Files, FileOrder
  <2>2. ~(o < o)
    OBVIOUS
  <2> QED BY <1>8, <2>1, <2>2
<1>11. Len(answered') <= asked' /\ o <= asked' /\ answered' = [k \in 1 .. Len(answered') |-> k]
  BY <1>1, <1>4, <1>5, <1>6, <1>7
<1>12. FileOrder'
  <2>1. /\ Increasing(fifo'[FileRunner], FileKinds) /\ Increasing(fifo'[IoRunner], {"done"})
        /\ \A d \in DonesWaiting', w \in OpsWaiting' : d.id < w.id
        /\ \A u \in Operating' : /\ run'[u].task.id \in Unanswered'
                                 /\ \A w \in OpsWaiting' : run'[u].task.id < w.id
                                 /\ \A d \in DonesWaiting' : d.id < run'[u].task.id
    BY <1>1, <1>3, <1>10 DEF Files, FileOrder
  <2>2. \A u \in Answering' : /\ run'[u].at \in {"begin", "user"} /\ run'[u].task.id <= asked'
                              /\ run'[u].at = "begin" => run'[u].task.id \in Unanswered'
                              /\ \A w \in OpsWaiting' \cup DonesWaiting' : run'[u].task.id < w.id
                              /\ \A v \in Operating' : run'[u].task.id < run'[v].task.id
    BY <1>3, <1>4, <1>10, <1>11
  <2> QED BY <1>3, <1>9, <1>10, <1>11, <2>1, <2>2 DEF FileOrder
<1>13. FileData'
  BY <1>1, <1>2, <1>3 DEF Files, FileData
<1> QED BY <1>12, <1>13 DEF Files

LEMMA FileCallbackReturnsKeeps ==
    ASSUME Shape, Placed, Files, NEW t \in Threads, FileCallbackReturns(t)
    PROVE  Files'
<1>0. RunnerShape
  BY DEF Shape
<1>1. /\ t \in Answering /\ run[t].at = "user" /\ UNCHANGED <<fifo, fileVars>> /\ Ended(t)
  BY <1>0, EndedFacts DEF FileCallbackReturns, Is, Answering
<1>2. Answering = {t} /\ t \notin Operating
  BY <1>1, OneFile
<1>3. /\ OpsWaiting' = OpsWaiting /\ DonesWaiting' = DonesWaiting
      /\ Operating' = Operating /\ Answering' = {} /\ Unanswered' = Unanswered
      /\ \A u \in Operating : run'[u] = run[u]
  BY <1>1, <1>2 DEF Ended, Others, Operating, Answering, OpsWaiting, DonesWaiting,
     Unanswered, fileVars
<1>4. \A k \in Unanswered' : Outstanding(k)'
  BY <1>1, <1>2, <1>3 DEF Files, FileOrder, Outstanding
<1>5. FileOrder'
  BY <1>1, <1>3, <1>4 DEF Files, FileOrder, fileVars
<1>6. FileData'
  BY <1>1, <1>3 DEF Files, FileData, fileVars
<1> QED BY <1>5, <1>6 DEF Files

LEMMA TakeFiles ==
    ASSUME Shape, Placed, Files, NEW r \in Runners, Take(r)
    PROVE  Files'
<1>0. RunnerShape
  BY DEF Shape
<1>1. PICK t \in Threads : Takes(t, r)
  BY TakeFacts
<1> DEFINE h == Head(fifo[r])
<1>2. /\ t \notin Operating /\ t \notin Answering /\ run'[t].task = h /\ run'[t] # Nothing
      /\ run'[t].at = "begin" /\ Others(t) /\ UNCHANGED fileVars /\ h \in Works /\ Home(h, r)
      /\ h \in Range(fifo[r])
  BY <1>1, TakeKeeps DEF Takes, Operating, Answering
<1>3. /\ Increasing(fifo'[FileRunner], FileKinds) /\ Increasing(fifo'[IoRunner], {"done"})
      /\ OpsWaiting' \subseteq OpsWaiting /\ DonesWaiting' \subseteq DonesWaiting
      /\ r # FileRunner \/ h.kind \notin FileKinds => OpsWaiting' = OpsWaiting
      /\ r # IoRunner \/ h.kind # "done" => DonesWaiting' = DonesWaiting
  BY <1>1, TakeKeeps, FileRunners DEF OpsWaiting, DonesWaiting, Files, FileOrder
<1>4. Unanswered' = Unanswered
  BY <1>2 DEF Unanswered, fileVars
<1> HIDE DEF h
<1>5. CASE h.kind \in FileKinds
  <2>1. r = FileRunner /\ h.kind # "done"
    BY <1>2, <1>5, FileRunners DEF Home
  <2>2. Operating = {}
    BY <1>1, <2>1 DEF Takes, Operating, Placed, Home
  <2>3. /\ Operating' = {t} /\ Answering' = Answering
        /\ \A u \in Answering : run'[u] = run[u]
    BY <1>2, <1>5, <2>1, <2>2 DEF Others, Operating, Answering
  <2>4. /\ h \in OpsWaiting /\ OpsWaiting \subseteq OpsWaiting' \cup {h}
        /\ \A v \in OpsWaiting' : h.id < v.id
    BY <1>1, <1>2, <1>5, <2>1, TakeKeeps, FileRunners
       DEF OpsWaiting, OfKinds, h, Files, FileOrder
  <2>5. DonesWaiting' = DonesWaiting
    BY <1>3, <2>1
  <2>6. \A k \in Unanswered' : Outstanding(k)'
    BY <1>2, <1>4, <2>2, <2>3, <2>4, <2>5 DEF Files, FileOrder, Outstanding
  <2>7. FileOrder'
    <3>1. \A u \in Operating' : /\ run'[u].task.id \in Unanswered'
                                /\ \A w \in OpsWaiting' : run'[u].task.id < w.id
                                /\ \A d \in DonesWaiting' : d.id < run'[u].task.id
      BY <1>2, <1>4, <2>3, <2>4, <2>5 DEF Files, FileOrder
    <3>2. /\ \A w \in OpsWaiting' \cup DonesWaiting' : w.id \in Unanswered'
          /\ \A d \in DonesWaiting', w \in OpsWaiting' : d.id < w.id
      BY <1>3, <1>4, <2>5 DEF Files, FileOrder
    <3>3. \A u \in Answering' :
             /\ run'[u].at \in {"begin", "user"} /\ run'[u].task.id <= asked'
             /\ run'[u].at = "begin" => run'[u].task.id \in Unanswered'
             /\ \A w \in OpsWaiting' \cup DonesWaiting' : run'[u].task.id < w.id
             /\ \A v \in Operating' : run'[u].task.id < run'[v].task.id
      BY <1>2, <1>3, <1>4, <2>3, <2>4, <2>5 DEF Files, FileOrder, fileVars
    <3> QED BY <1>2, <1>3, <2>6, <3>1, <3>2, <3>3 DEF Files, FileOrder, fileVars
  <2>8. FileData'
    <3>1. changed \in SUBSET Nat /\ \A k \in changed : k < h.id
      BY <2>4 DEF Shape, FileShape, Ids, Files, FileData
    <3>2. h.id \in Nat
      BY <1>2, <1>5, WorkTypes DEF Ids
    <3>3. \A u \in Operating' :
            /\ run'[u].at \in {"begin", "transfer", "close", "reply"}
            /\ \A k \in changed' : /\ k <= run'[u].task.id
                                   /\ \/ run'[u].at \in {"begin", "transfer"}
                                      \/ run'[u].task.kind \notin Changes
                                      => k < run'[u].task.id
            /\ run'[u].at \in {"close", "reply"}
                 => ReadRight(changed', run'[u].task.kind, run'[u].task.id, run'[u].locals)
      BY <1>2, <2>3, <3>1, <3>2 DEF fileVars
    <3>4. open' = {run'[u].task.id : u \in {v \in Operating' : run'[v].at \in {"transfer", "close"}}}
      BY <1>2, <2>2, <2>3 DEF Files, FileData, fileVars
    <3>5. /\ changed' \subseteq 1 .. asked' /\ content' = Max({0} \cup changed')
          /\ \A w \in OpsWaiting', k \in changed' : k < w.id
          /\ \A d \in DonesWaiting' : ReadRight(changed', d.op, d.id, d.result)
          /\ \A u \in Answering' :
                ReadRight(changed', run'[u].task.op, run'[u].task.id, run'[u].task.result)
      BY <1>2, <1>3, <2>3, <2>5 DEF Files, FileData, fileVars
    <3> QED BY <3>3, <3>4, <3>5 DEF FileData
  <2> QED BY <2>7, <2>8 DEF Files
<1>6. CASE h.kind = "done"
  <2>1. r = IoRunner /\ h.kind \notin FileKinds
    BY <1>2, <1>6, FileRunners DEF Home
  <2>2. Answering = {}
    BY <1>1, <2>1 DEF Takes, Answering, Placed, Home
  <2>3. /\ Answering' = {t} /\ Operating' = Operating
        /\ \A u \in Operating : run'[u] = run[u]
    BY <1>2, <1>6, <2>1, <2>2 DEF Others, Operating, Answering
  <2>4. /\ h \in DonesWaiting /\ DonesWaiting \subseteq DonesWaiting' \cup {h}
        /\ \A v \in DonesWaiting' : h.id < v.id
    BY <1>1, <1>2, <1>6, <2>1, TakeKeeps, FileRunners
       DEF DonesWaiting, OfKinds, h, Files, FileOrder
  <2>5. OpsWaiting' = OpsWaiting
    BY <1>3, <2>1
  <2>6. \A k \in Unanswered' : Outstanding(k)'
    BY <1>2, <1>4, <2>2, <2>3, <2>4, <2>5 DEF Files, FileOrder, Outstanding
  <2>7. FileOrder'
    <3>1. \A u \in Operating' : /\ run'[u].task.id \in Unanswered'
                                /\ \A w \in OpsWaiting' : run'[u].task.id < w.id
                                /\ \A d \in DonesWaiting' : d.id < run'[u].task.id
      BY <1>3, <1>4, <2>3, <2>5 DEF Files, FileOrder
    <3>2. /\ \A w \in OpsWaiting' \cup DonesWaiting' : w.id \in Unanswered'
          /\ \A d \in DonesWaiting', w \in OpsWaiting' : d.id < w.id
      BY <1>3, <1>4, <2>5 DEF Files, FileOrder
    <3>3. h.id \in Unanswered /\ h.id <= asked
      <4>1. h.id \in Unanswered
        BY <2>4 DEF Files, FileOrder
      <4>2. PICK n \in Nat : n = Len(answered)
        BY LenProperties DEF Shape, FileShape
      <4> QED BY <4>1, <4>2 DEF Unanswered, Shape, FileShape
    <3>4. \A u \in Answering' :
             /\ run'[u].at \in {"begin", "user"} /\ run'[u].task.id <= asked'
             /\ run'[u].at = "begin" => run'[u].task.id \in Unanswered'
             /\ \A w \in OpsWaiting' \cup DonesWaiting' : run'[u].task.id < w.id
             /\ \A v \in Operating' : run'[u].task.id < run'[v].task.id
      BY <1>2, <1>4, <2>3, <2>4, <2>5, <3>3 DEF Files, FileOrder, fileVars
    <3> QED BY <1>2, <1>3, <2>6, <3>1, <3>2, <3>4 DEF Files, FileOrder, fileVars
  <2>8. FileData'
    <3>1. \A u \in Answering' :
             ReadRight(changed', run'[u].task.op, run'[u].task.id, run'[u].task.result)
      BY <1>2, <2>3, <2>4 DEF Files, FileData, fileVars
    <3> QED BY <1>2, <1>3, <2>3, <2>5, <3>1 DEF Files, FileData, fileVars
  <2> QED BY <2>7, <2>8 DEF Files
<1>7. CASE h.kind \notin FileKinds /\ h.kind # "done"
  <2>1. /\ Operating' = Operating /\ Answering' = Answering
        /\ \A u \in Operating \cup Answering : run'[u] = run[u]
    BY <1>2, <1>7 DEF Others, Operating, Answering
  <2> QED BY <1>2, <1>3, <1>7, <2>1, FilesSame
<1> QED BY <1>5, <1>6, <1>7

LEMMA InitFiles == Init => Files
<1> SUFFICES ASSUME Init PROVE Files
  OBVIOUS
<1>1. /\ \A r \in Runners : fifo[r] = <<>> /\ \A t \in Threads : run[t] = Nothing
      /\ asked = 0 /\ answered = <<>> /\ open = {} /\ content = 0 /\ changed = {}
  BY DEF Init, RunnersInit, FileInit
<1>2. /\ OpsWaiting = {} /\ DonesWaiting = {} /\ Operating = {} /\ Answering = {}
      /\ Increasing(fifo[FileRunner], FileKinds) /\ Increasing(fifo[IoRunner], {"done"})
  BY <1>1, FileRunners
     DEF OpsWaiting, DonesWaiting, OfKinds, Range, Operating, Answering, Increasing
<1>3. Len(<<>>) = 0 /\ <<>> = [k \in 1 .. 0 |-> k] /\ Unanswered = {}
  BY <1>1 DEF Unanswered
<1>4. Max({0}) = 0
  BY DEF Max
<1> QED BY <1>1, <1>2, <1>3, <1>4 DEF Files, FileOrder, FileData

LEMMA FilesKept == Shape /\ Placed /\ Files /\ [Next]_vars => Files'
<1> SUFFICES ASSUME Shape, Placed, Files, [Next]_vars PROVE Files'
  OBVIOUS
<1>1. /\ {"tick"} \cap FileAll = {} /\ {"task", "reply"} \cap FileAll = {}
      /\ (BusKinds \cup {"flush"}) \cap FileAll = {}
  BY DEF FileAll, FileKinds, Whole, Changes, BusKinds
<1>2. ASSUME NEW c \in Callers, ClientCall(c) \/ CallStep(c)
      PROVE  Files'
  BY <1>1, <1>2, FileCallKeeps, FilesWithin, TimerWithin, BusWithin, ReplyWithin
     DEF ClientCall, CallStep
<1>3. ASSUME NEW t \in Threads, TaskStep(t)
      PROVE  Files'
  <2>1. CASE FileTask(t)
    BY <2>1, FileStepKeeps, FileReplyKeeps, FileCallbackKeeps, FileCallbackReturnsKeeps
       DEF FileTask
  <2>2. CASE ~FileTask(t)
    BY <1>1, <1>3, <2>2, FilesWithin, TimerWithin, BusWithin, ReplyWithin DEF TaskStep
  <2> QED BY <2>1, <2>2
<1>4. ASSUME NEW r \in Runners, NEW w \in Range(later[r]), Deadline(r, w)
      PROVE  Files'
  BY <1>1, <1>4, FilesWithin, TimerWithin DEF Deadline
<1>5. ASSUME UNCHANGED vars
      PROVE  Files'
  BY <1>5, FilesSame DEF vars, runnerVars, fileVars, Files, FileOrder, OpsWaiting,
     DonesWaiting, Operating, Answering
<1> QED BY <1>2, <1>3, <1>4, <1>5, TakeFiles DEF Next

\* FilesInOrder holds: the callbacks of a file proxy come in the order of the calls, a
\* read sees the change called last before it, and no path through an operation leaves
\* its descriptor open. Files says of every stage an operation passes (its task in the
\* proxy's queue, a worker, the answer in the IO thread's queue, the IO thread) that
\* the numbers there precede those of the stages before, and that every number that
\* was not answered is in one of them.
THEOREM FilesInOrderHolds == Spec => []FilesInOrder
<1>1. Placed /\ Files => FilesInOrder
  <2> SUFFICES ASSUME Placed, Files PROVE FilesInOrder
    OBVIOUS
  <2>1. ASSUME NEW w \in Everywhere, w.kind = "done"
        PROVE  w \in DonesWaiting \/ \E t \in Answering : w = run[t].task
    <3>1. CASE w \in Running
      BY <2>1, <3>1 DEF Running, Answering
    <3>2. CASE \E r \in Runners : w \in Queued(r)
      <4>1. PICK r \in Runners : w \in Queued(r)
        BY <3>2
      <4>2. r = IoRunner /\ w \notin Range(later[r])
        BY <2>1, <4>1 DEF Placed, Home
      <4> QED BY <2>1, <4>1, <4>2 DEF Queued, DonesWaiting, OfKinds
    <3> QED BY <2>1, <3>1, <3>2 DEF Everywhere
  <2>2. \A w \in Everywhere : w.kind = "done" => ReadRight(changed, w.op, w.id, w.result)
    BY <2>1 DEF Files, FileData
  <2>3. \A w \in Everywhere :
           w.kind = "done" /\ w.op \notin Changes /\ w.result # <<>>
              => w.result = <<Max({0} \cup {k \in changed : k < w.id})>>
    BY <2>2 DEF ReadRight, Latest
  <2>4. open = {run[t].task.id : t \in {u \in Threads : \/ Is(u, FileKinds, "transfer")
                                                        \/ Is(u, FileKinds, "close")}}
    <3>1. {u \in Operating : run[u].at \in {"transfer", "close"}}
             = {u \in Threads : Is(u, FileKinds, "transfer") \/ Is(u, FileKinds, "close")}
      BY DEF Operating, Is
    <3> QED BY <3>1 DEF Files, FileData
  <2> QED BY <2>3, <2>4 DEF FilesInOrder, Files, FileOrder
<1> QED BY <1>1, ShapeInvariant, PlacedInvariant, InitFiles, FilesKept, PTL DEF Spec
-----------------------------------------------------------------------------
(* How often tasks stand in a queue *)

Places(s, V) == {k \in DOMAIN s : s[k] \in V}
CountIn(s, V) == Cardinality(Places(s, V))

LEMMA PlacesFinite ==
    ASSUME NEW S, NEW s \in Seq(S), NEW V
    PROVE  IsFiniteSet(Places(s, V)) /\ CountIn(s, V) \in Nat
<1>1. PICK n \in Nat : n = Len(s) /\ DOMAIN s = 1 .. n
  BY LenProperties
<1>2. IsFiniteSet(1 .. n) /\ Places(s, V) \in SUBSET (1 .. n)
  BY <1>1, FS_Interval DEF Places
<1>3. IsFiniteSet(Places(s, V))
  BY <1>2, FS_Subset
<1> QED BY <1>3, FS_CardinalityType DEF CountIn

LEMMA CountAppend ==
    ASSUME NEW S, NEW s \in Seq(S), NEW w \in S, NEW V
    PROVE  CountIn(Append(s, w), V) = CountIn(s, V) + (IF w \in V THEN 1 ELSE 0)
<1>1. PICK n \in Nat : n = Len(s) /\ DOMAIN s = 1 .. n
  BY LenProperties
<1>2. /\ DOMAIN Append(s, w) = 1 .. n + 1 /\ Append(s, w)[n + 1] = w
      /\ \A i \in 1 .. n : Append(s, w)[i] = s[i]
  BY <1>1, AppendProperties, LenProperties
<1> DEFINE a == Append(s, w)
<1>3. Places(a, V) = IF w \in V THEN Places(s, V) \cup {n + 1} ELSE Places(s, V)
  <2>1. 1 .. n + 1 = (1 .. n) \cup {n + 1} /\ n + 1 \notin 1 .. n
    OBVIOUS
  <2> HIDE DEF a
  <2>2. DOMAIN a = (1 .. n) \cup {n + 1} /\ a[n + 1] = w /\ \A i \in 1 .. n : a[i] = s[i]
    BY <1>2, <2>1 DEF a
  <2> QED BY <1>1, <2>1, <2>2 DEF Places
<1> HIDE DEF a
<1>4. n + 1 \notin Places(s, V)
  BY <1>1 DEF Places
<1>5. IsFiniteSet(Places(s, V)) /\ Cardinality(Places(s, V)) \in Nat
  BY PlacesFinite DEF CountIn
<1>6. Cardinality(Places(s, V) \cup {n + 1}) = Cardinality(Places(s, V)) + 1
  BY <1>4, <1>5, FS_AddElement
<1> QED BY <1>3, <1>5, <1>6 DEF CountIn, a

\* The task at position n is taken out, and those behind it move up.
LEMMA CountDrop ==
    ASSUME NEW S, NEW s \in Seq(S), NEW q \in Seq(S), NEW n \in 1 .. Len(s),
           Len(q) = Len(s) - 1,
           \A k \in 1 .. Len(s) - 1 : q[k] = IF k < n THEN s[k] ELSE s[k + 1],
           NEW V
    PROVE  CountIn(s, V) = CountIn(q, V) + (IF s[n] \in V THEN 1 ELSE 0)
<1>1. PICK l \in Nat : l = Len(s) /\ DOMAIN s = 1 .. l
  BY LenProperties
<1>2. /\ DOMAIN q = 1 .. l - 1 /\ n \in 1 .. l
      /\ \A k \in 1 .. l - 1 : q[k] = IF k < n THEN s[k] ELSE s[k + 1]
  BY <1>1, LenProperties
<1> DEFINE P == Places(q, V)
           R == Places(s, V) \ {n}
           f == [k \in P |-> IF k < n THEN k ELSE k + 1]
<1>3. P = {k \in 1 .. l - 1 : q[k] \in V} /\ R = {k \in 1 .. l : s[k] \in V /\ k # n}
  BY <1>1, <1>2 DEF Places
<1> HIDE DEF P, R
<1>4. \A k \in P : f[k] \in R /\ f[k] = IF k < n THEN k ELSE k + 1
  <2> SUFFICES ASSUME NEW k \in P PROVE f[k] \in R /\ f[k] = IF k < n THEN k ELSE k + 1
    OBVIOUS
  <2>1. f[k] = IF k < n THEN k ELSE k + 1
    OBVIOUS
  <2>2. k \in 1 .. l - 1 /\ q[k] \in V
    BY <1>3
  <2>3. CASE k < n
    BY <1>2, <1>3, <2>1, <2>2, <2>3
  <2>4. CASE ~(k < n)
    <3>1. k + 1 \in 1 .. l /\ k + 1 # n
      BY <1>2, <2>2, <2>4
    <3>2. s[k + 1] \in V
      BY <1>2, <2>2, <2>4
    <3> QED BY <1>3, <2>1, <2>4, <3>1, <3>2
  <2> QED BY <2>3, <2>4
<1>5. \A k, m \in P : f[k] = f[m] => k = m
  <2>1. \A k, m \in 1 .. l - 1 :
          (IF k < n THEN k ELSE k + 1) = (IF m < n THEN m ELSE m + 1) => k = m
    BY <1>2
  <2> QED BY <1>3, <1>4, <2>1
<1>6. \A m \in R : \E k \in P : f[k] = m
  <2> SUFFICES ASSUME NEW m \in R PROVE \E k \in P : f[k] = m
    OBVIOUS
  <2>1. m \in 1 .. l /\ s[m] \in V /\ m # n
    BY <1>3
  <2>2. CASE m < n
    <3>1. m \in 1 .. l - 1 /\ q[m] = s[m]
      BY <1>2, <2>1, <2>2
    <3> QED BY <1>3, <1>4, <2>1, <2>2, <3>1
  <2>3. CASE ~(m < n)
    <3>1. m - 1 \in 1 .. l - 1 /\ ~(m - 1 < n) /\ (m - 1) + 1 = m
      BY <1>2, <2>1, <2>3
    <3>2. q[m - 1] = s[m]
      BY <1>2, <3>1
    <3> QED BY <1>3, <1>4, <2>1, <3>1, <3>2
  <2> QED BY <2>2, <2>3
<1>7. f \in Bijection(P, R)
  <2>1. f \in [P -> R]
    BY <1>4
  <2> HIDE DEF f
  <2> QED BY <1>5, <1>6, <2>1 DEF Bijection, Injection, Surjection, IsInjective
<1>8. IsFiniteSet(P) /\ IsFiniteSet(Places(s, V)) /\ Cardinality(Places(s, V)) \in Nat
  BY PlacesFinite DEF CountIn, P
<1>9. Cardinality(R) = Cardinality(P)
  BY <1>7, <1>8, FS_Bijection DEF ExistsBijection
<1>10. Cardinality(R) = IF n \in Places(s, V) THEN Cardinality(Places(s, V)) - 1
                                              ELSE Cardinality(Places(s, V))
  BY <1>8, FS_RemoveElement DEF R
<1>11. n \in Places(s, V) <=> s[n] \in V
  BY <1>1, <1>2 DEF Places
<1> QED BY <1>8, <1>9, <1>10, <1>11 DEF CountIn, P

LEMMA CountTail ==
    ASSUME NEW S, NEW s \in Seq(S), s # <<>>, NEW V
    PROVE  CountIn(s, V) = CountIn(Tail(s), V) + (IF Head(s) \in V THEN 1 ELSE 0)
<1>1. /\ Tail(s) \in Seq(S) /\ Len(Tail(s)) = Len(s) - 1 /\ Head(s) = s[1]
      /\ \A k \in 1 .. Len(s) - 1 : Tail(s)[k] = s[k + 1]
      /\ Len(s) \in Nat /\ Len(s) # 0
  BY EmptySeq, HeadTailProperties, LenProperties
<1>2. 1 \in 1 .. Len(s) /\ \A k \in 1 .. Len(s) - 1 : ~(k < 1)
  BY <1>1
<1> DEFINE q == Tail(s)
<1>3. /\ q \in Seq(S) /\ Len(q) = Len(s) - 1
      /\ \A k \in 1 .. Len(s) - 1 : q[k] = IF k < 1 THEN s[k] ELSE s[k + 1]
  BY <1>1, <1>2
<1> HIDE DEF q
<1>4. CountIn(s, V) = CountIn(q, V) + (IF s[1] \in V THEN 1 ELSE 0)
  BY <1>2, <1>3, CountDrop
<1> QED BY <1>1, <1>4 DEF q

LEMMA CountRemoveFirst ==
    ASSUME NEW S, NEW s \in Seq(S), NEW w \in Range(s), NEW V
    PROVE  CountIn(s, V) = CountIn(RemoveFirst(s, w), V) + (IF w \in V THEN 1 ELSE 0)
<1> DEFINE q == RemoveFirst(s, w)
<1>1. /\ q \in Seq(S)
      /\ \E n \in 1 .. Len(s) :
            /\ s[n] = w /\ Len(q) = Len(s) - 1
            /\ \A k \in 1 .. Len(s) - 1 : q[k] = IF k < n THEN s[k] ELSE s[k + 1]
  BY RemoveFirstFacts
<1> HIDE DEF q
<1>2. CountIn(s, V) = CountIn(q, V) + (IF w \in V THEN 1 ELSE 0)
  <2>1. PICK n \in 1 .. Len(s) :
             /\ s[n] = w /\ Len(q) = Len(s) - 1
             /\ \A k \in 1 .. Len(s) - 1 : q[k] = IF k < n THEN s[k] ELSE s[k + 1]
    BY <1>1
  <2>2. CountIn(s, V) = CountIn(q, V) + (IF s[n] \in V THEN 1 ELSE 0)
    BY ONLY s \in Seq(S), n \in 1 .. Len(s), <1>1, <2>1, CountDrop, SMTT(60)
  <2> QED BY <2>1, <2>2
<1> QED BY <1>2 DEF q

\* Sets of at most one element.
One(S) == IF S = {} THEN 0 ELSE 1

LEMMA CountOne ==
    ASSUME NEW S, \A x, y \in S : x = y
    PROVE  Cardinality(S) = One(S)
<1>1. CASE S = {}
  BY <1>1, FS_EmptySet DEF One
<1>2. CASE S # {}
  <2>1. PICK x \in S : S = {x}
    BY <1>2
  <2> QED BY <1>2, <2>1, FS_Singleton DEF One
<1> QED BY <1>1, <1>2
-----------------------------------------------------------------------------
(* The timer *)

Started(c) == call[c] # Nothing /\ call[c].op = "start"
Ticking(i) == {t \in Threads : /\ run[t] # Nothing /\ run[t].task = Tick(i)
                               /\ run[t].at \in {"begin", "schedule"}}
Flying(i) == {t \in Threads : /\ run[t] # Nothing /\ run[t].task = Tick(i)
                              /\ run[t].at \in {"schedule", "callback"}}
Scheduling(i) == {c \in Starters(i) : call[c].at = "schedule"}
Delayed(i) == CountIn(later[TimerRunner], {Tick(i)})
Waiting(i) == CountIn(fifo[TimerRunner], {Tick(i)})

\* No inner has two references of starts, and one chain of ticks is pending at most.
StartsOnce ==
    /\ \A c \in Callers : Started(c) => call[c].id \in 1 .. inners
    /\ \A c, d \in Callers : Started(c) /\ Started(d) /\ call[c].id = call[d].id => c = d
Chain(i) == Delayed(i) + Waiting(i) + One(Ticking(i)) + One(Scheduling(i))
Chains ==
    /\ \A i \in Ids \ 1 .. inners : Chain(i) = 0
    /\ \A i \in 1 .. inners : Chain(i) <= 1 /\ (active = i => Chain(i) = 1)

\* A callback that is late is the last one of its inner, and nothing flies of one that
\* was given up on the timer's runner.
Referred(i) == active = i \/ Starters(i) # {}
Lateness ==
    \A i \in 1 .. MaxCalls :
        /\ late[i] \in {0, 1}
        /\ i > inners \/ Referred(i) \/ Flying(i) # {} \/ i \in stoppedIn => late[i] = 0
        /\ i > inners \/ i \in stoppedIn => Flying(i) = {} /\ ~Referred(i)

Timely == StartsOnce /\ Chains /\ Lateness

\* Only one thread serves the timer's runner.
LEMMA OneTick ==
    ASSUME Shape, Placed, NEW t \in Threads, run[t] # Nothing, run[t].runner = TimerRunner
    PROVE  \A i : /\ Ticking(i) \subseteq {t} /\ Flying(i) \subseteq {t}
                  /\ \A x, y \in Ticking(i) : x = y
<1>1. \A i : Tick(i).kind = "tick"
  BY DEF Tick, Work
<1>2. \A u \in Threads : run[u] # Nothing /\ run[u].task.kind = "tick" => u = t
  BY DEF Placed, Home
<1> QED BY <1>1, <1>2 DEF Ticking, Flying

LEMMA TickIds == \A i, j : Tick(i) = Tick(j) => i = j
<1>1. \A i : Tick(i).id = i
  BY DEF Tick, Work
<1> QED BY <1>1

LEMMA ChainIs ==
    ASSUME Shape, Placed, StartsOnce, NEW i
    PROVE  /\ Pending(i) = Chain(i)
           /\ Delayed(i) \in Nat /\ Waiting(i) \in Nat
           /\ \A c, d \in Starters(i) : c = d
<1>1. /\ later[TimerRunner] \in Seq(Works) /\ fifo[TimerRunner] \in Seq(Works)
  BY ClientsAssumption DEF Shape, RunnerShape, Runners
<1>2. /\ Occurrences(later[TimerRunner], Tick(i)) = Delayed(i)
      /\ Occurrences(fifo[TimerRunner], Tick(i)) = Waiting(i)
  BY DEF Occurrences, Delayed, Waiting, CountIn, Places
<1>3. \A x, y \in Ticking(i) : x = y
  <2>1. \A t \in Ticking(i) : run[t].runner = TimerRunner
    BY DEF Ticking, Placed, Home, Tick, Work
  <2> QED BY <2>1 DEF Ticking, Placed
<1>4. \A c, d \in Starters(i) : c = d
  BY DEF StartsOnce, Started, Starters
<1>5. Cardinality(Ticking(i)) = One(Ticking(i)) /\ Cardinality(Scheduling(i)) = One(Scheduling(i))
  <2>1. \A x, y \in Scheduling(i) : x = y
    BY <1>4 DEF Scheduling
  <2> QED BY <1>3, <2>1, CountOne
<1>6. Pending(i) = Occurrences(later[TimerRunner], Tick(i))
                   + Occurrences(fifo[TimerRunner], Tick(i))
                   + Cardinality(Ticking(i)) + Cardinality(Scheduling(i))
  BY DEF Pending, Ticking, Scheduling
<1>7. Delayed(i) \in Nat /\ Waiting(i) \in Nat
  BY <1>1, PlacesFinite DEF Delayed, Waiting
<1> QED BY <1>2, <1>4, <1>5, <1>6, <1>7 DEF Chain

\* The counts are numbers, whatever the state.
LEMMA CountTypes ==
    ASSUME Shape, NEW i
    PROVE  /\ Delayed(i) \in Nat /\ Waiting(i) \in Nat
           /\ One(Ticking(i)) \in {0, 1} /\ One(Scheduling(i)) \in {0, 1}
<1>1. /\ later[TimerRunner] \in Seq(Works) /\ fifo[TimerRunner] \in Seq(Works)
  BY ClientsAssumption DEF Shape, RunnerShape, Runners
<1> QED BY <1>1, PlacesFinite DEF Delayed, Waiting, One

\* Steps that leave the numbers of the chains alone.
LEMMA ChainsSame ==
    ASSUME Shape, Chains, UNCHANGED inners, active' \in {active, 0},
           \A i \in Ids : Chain(i)' = Chain(i)
    PROVE  Chains'
<1>1. \A i \in 1 .. inners : i \in Ids /\ (active' = i => active = i)
  BY RunnersAssumption DEF Shape, RunnerShape, TimerShape, Ids
<1>2. \A i \in Ids \ 1 .. inners : Chain(i)' = 0
  BY DEF Chains
<1>3. \A i \in 1 .. inners : Chain(i)' <= 1 /\ (active' = i => Chain(i)' = 1)
  BY <1>1 DEF Chains
<1> QED BY <1>2, <1>3 DEF Chains
\* What the steps of others leave alone: the starts, the ticks and the timer.
StartsKept ==
    \A c \in Callers : Started(c)' = Started(c) /\ (Started(c) => call'[c] = call[c])

LEMMA StartsSame ==
    ASSUME StartsOnce, StartsKept, UNCHANGED inners
    PROVE  /\ StartsOnce'
           /\ \A i : Starters(i)' = Starters(i) /\ Scheduling(i)' = Scheduling(i)
<1>1. \A i : Starters(i)' = Starters(i)
  BY DEF StartsKept, Starters, Started
<1>2. \A i : Scheduling(i)' = Scheduling(i)
  <2>1. \A i : \A c \in Starters(i) : call'[c] = call[c]
    BY DEF StartsKept, Starters, Started
  <2> QED BY <1>1, <2>1 DEF Scheduling
<1>3. StartsOnce'
  BY DEF StartsOnce, StartsKept
<1> QED BY <1>1, <1>2, <1>3

\* The same timer, and of each inner the same references, and less that flies.
LEMMA LatenessSame ==
    ASSUME Lateness, UNCHANGED timerVars, \A i : Starters(i)' \subseteq Starters(i),
           \A i : Flying(i)' \subseteq Flying(i)
    PROVE  Lateness'
<1>1. \A i : Referred(i)' => Referred(i)
  BY DEF Referred, timerVars
<1>2. \A i : Flying(i)' # {} => Flying(i) # {}
  OBVIOUS
<1>3. \A i : Flying(i) = {} => Flying(i)' = {}
  OBVIOUS
<1> QED BY <1>1, <1>2, <1>3 DEF Lateness, timerVars

LEMMA WaitingKept ==
    ASSUME Shape, NEW G, "tick" \notin G, Posts(G)
    PROVE  \A i : Waiting(i)' = Waiting(i)
<1>0. RunnerShape /\ TimerRunner \in Runners /\ fifo[TimerRunner] \in Seq(Works)
  BY ClientsAssumption DEF Shape, RunnerShape, Runners
<1>1. CASE fifo' = fifo
  BY <1>1 DEF Waiting
<1>2. ASSUME NEW r \in Runners, NEW w \in Works, w.kind \in G, fifo' = Posted(r, w), NEW i
      PROVE  Waiting(i)' = Waiting(i)
  <2>1. w \notin {Tick(i)}
    BY <1>2 DEF Tick, Work
  <2>2. fifo'[TimerRunner] = fifo[TimerRunner] \/ fifo'[TimerRunner] = Append(fifo[TimerRunner], w)
    BY <1>0, <1>2, PostedFacts
  <2>3. CountIn(Append(fifo[TimerRunner], w), {Tick(i)})
          = CountIn(fifo[TimerRunner], {Tick(i)}) + (IF w \in {Tick(i)} THEN 1 ELSE 0)
    BY <1>0, CountAppend
  <2>4. CountIn(fifo[TimerRunner], {Tick(i)}) \in Nat
    BY <1>0, PlacesFinite
  <2>5. CountIn(Append(fifo[TimerRunner], w), {Tick(i)}) = CountIn(fifo[TimerRunner], {Tick(i)})
    BY <2>1, <2>3, <2>4
  <2> QED BY <2>2, <2>5 DEF Waiting
<1> QED BY <1>1, <1>2 DEF Posts

LEMMA TimelyWithin ==
    ASSUME Shape, Timely, NEW G, "tick" \notin G, Within(G), StartsKept,
           UNCHANGED <<timerVars, later>>
    PROVE  Timely'
<1>1. /\ StartsOnce'
      /\ \A i : Starters(i)' = Starters(i) /\ Scheduling(i)' = Scheduling(i)
  BY StartsSame DEF Timely, timerVars
<1>2. \A i : Waiting(i)' = Waiting(i) /\ Delayed(i)' = Delayed(i)
  BY WaitingKept DEF Within, Delayed
<1>3. \A i : Ticking(i)' = Ticking(i) /\ Flying(i)' = Flying(i)
  <2>1. \A i : Tick(i).kind = "tick"
    BY DEF Tick, Work
  <2> QED BY <2>1 DEF Within, Goes, Ticking, Flying
<1>4. \A i \in Ids : Chain(i)' = Chain(i)
  BY <1>1, <1>2, <1>3 DEF Chain
<1>5. Chains' /\ Lateness'
  BY <1>1, <1>3, <1>4, ChainsSame, LatenessSame DEF Timely, timerVars
<1> QED BY <1>1, <1>5 DEF Timely

LEMMA OthersTimely ==
    ASSUME Shape, Placed, Timely, UNCHANGED timerVars,
           \/ \E c \in Callers : \/ BusCall(c) \/ SubscribePosts(c) \/ FileCall(c)
                                 \/ \E r \in Runners : PostTaskAndReply(c, r)
           \/ \E t \in Threads : /\ TaskStep(t)
                                 /\ \/ BusTask(t) \/ FileTask(t)
                                    \/ BeginTask(t) \/ PostReply(t) \/ EndTask(t)
    PROVE  Timely'
<1>1. PICK G \in {{"task", "reply"}, BusKinds \cup {"flush"}, FileKinds \cup {"done"}} : Within(G)
  BY ReplyWithin, BusWithin, FileWithin
<1>2. "tick" \notin G
  BY DEF BusKinds, FileKinds, Whole, Changes
<1>3. UNCHANGED later
  BY DEF BusCall, Subscribe, Unsubscribe, Publish, Flush, DropBus, SubscribePosts, FileCall,
     PostTaskAndReply, BusTask, BusUpdate, BusDispatch, Deliver, CallbackReturns, Delivered,
     FlushDone, DoneReturns, FileTask, FileOpen, Transfer, FileClose, FileWhole, FileReply,
     FileCallback, FileCallbackReturns, BeginTask, PostReply, EndTask
<1>4. StartsKept
  <2>1. CASE UNCHANGED call
    BY <2>1 DEF StartsKept, Started
  <2>2. ASSUME NEW c \in Callers, Subscribe(c) \/ SubscribePosts(c)
        PROVE  StartsKept
    <3>1. /\ ~Started(c) /\ \A d \in Callers \ {c} : call'[d] = call[d]
          /\ call'[c] = Nothing \/ call'[c] = [op |-> "subscribe", id |-> nextId, at |-> "post"]
      BY <2>2 DEF Subscribe, SubscribePosts, MayCall, Started, Shape, RunnerShape
    <3>2. [op |-> "subscribe", id |-> nextId, at |-> "post"].op # "start"
      OBVIOUS
    <3>3. ~Started(c)'
      BY <3>1, <3>2 DEF Started
    <3> QED BY <3>1, <3>3 DEF StartsKept, Started
  <2>3. UNCHANGED call \/ \E c \in Callers : Subscribe(c) \/ SubscribePosts(c)
    BY DEF BusCall, Unsubscribe, Publish, Flush, DropBus, FileCall,
       PostTaskAndReply, BusTask, BusUpdate, BusDispatch, Deliver, CallbackReturns, Delivered,
       FlushDone, DoneReturns, FileTask, FileOpen, Transfer, FileClose, FileWhole, FileReply,
       FileCallback, FileCallbackReturns, BeginTask, PostReply, EndTask, callVars
  <2> QED BY <2>1, <2>2, <2>3
<1> QED BY <1>1, <1>2, <1>3, <1>4, TimelyWithin

\* An inner is given up on the timer's runner by the callback of a task: none flies.
LEMMA GiveUpFacts ==
    ASSUME Shape, Placed, NEW c \in Callers, MayCall(c), NEW j, GiveUp(c, j)
    PROVE  /\ active' = j
           /\ \/ stoppedIn' = stoppedIn
              \/ /\ stoppedIn' = stoppedIn \cup {active} /\ active # 0
                 /\ Starters(active) = {} /\ \A i : Flying(i) = {}
<1>1. CASE c \in Threads /\ run[c].runner = TimerRunner /\ active # 0 /\ Starters(active) = {}
  <2>1. run[c] # Nothing /\ run[c].at = "user"
    BY <1>1 DEF MayCall
  <2>2. \A i : Flying(i) \subseteq {c}
    BY <1>1, <2>1, OneTick
  <2>3. \A i : c \notin Flying(i)
    BY <2>1 DEF Flying
  <2>4. \A i : Flying(i) = {}
    BY <2>2, <2>3
  <2> QED BY <1>1, <2>4 DEF GiveUp
<1>2. CASE ~(/\ c \in Threads /\ run[c].runner = TimerRunner
             /\ active # 0 /\ Starters(active) = {})
  BY <1>2 DEF GiveUp
<1> QED BY <1>1, <1>2

LEMMA TimerStartTimely ==
    ASSUME Shape, Placed, Timely, NEW c \in Callers, TimerStart(c)
    PROVE  Timely'
<1>0. RunnerShape /\ inners \in Nat /\ inners + 1 \in Ids /\ active \in 0 .. inners
  BY RunnersAssumption DEF Shape, RunnerShape, TimerShape, TimerStart, MayCall, Ids
<1>1. PICK j \in Nat : j = inners + 1
  BY <1>0
<1>2. /\ call[c] = Nothing /\ ~Started(c) /\ MayCall(c) /\ GiveUp(c, j) /\ inners' = j
      /\ call' = [call EXCEPT ![c] = [op |-> "start", id |-> j, at |-> "schedule"]]
      /\ UNCHANGED <<fifo, later, run, late>>
  BY <1>1 DEF TimerStart, MayCall, Started
<1>3. [op |-> "start", id |-> j, at |-> "schedule"] # Nothing
  BY <1>0, <1>1, StartCalls, ClientsAssumption
<1>4. /\ Started(c)' /\ call'[c].id = j /\ call'[c].at = "schedule"
      /\ \A d \in Callers \ {c} : call'[d] = call[d] /\ Started(d)' = Started(d)
  BY <1>0, <1>2, <1>3 DEF RunnerShape, Started
<1>5. /\ \A d \in Callers : Started(d) => call[d].id \in 1 .. inners
      /\ j \notin 1 .. inners /\ 1 .. inners \subseteq 1 .. j /\ j \in 1 .. j
  BY <1>0, <1>1 DEF Timely, StartsOnce
<1>6. StartsOnce'
  BY <1>2, <1>4, <1>5 DEF Timely, StartsOnce
<1>7. /\ \A i : i # j => Starters(i)' = Starters(i) /\ Scheduling(i)' = Scheduling(i)
      /\ Starters(j) = {} /\ Scheduling(j) = {} /\ Scheduling(j)' = {c}
  <2>1. \A i : Starters(i) = {d \in Callers : Started(d) /\ call[d].id = i}
    BY DEF Starters, Started
  <2>2. \A i : Starters(i)' = {d \in Callers : Started(d)' /\ call'[d].id = i}
    BY DEF Starters, Started
  <2>3. \A i : i # j => Starters(i)' = Starters(i)
    BY <1>2, <1>4, <2>1, <2>2
  <2>4. Starters(j) = {} /\ Starters(j)' = {c}
    BY <1>4, <1>5, <2>1, <2>2
  <2>5. \A i : i # j => c \notin Starters(i)
    BY <1>2, <2>1
  <2>6. \A i : i # j => Scheduling(i)' = Scheduling(i)
    BY <1>4, <2>1, <2>3, <2>5 DEF Scheduling
  <2> QED BY <1>4, <2>3, <2>4, <2>6 DEF Scheduling
<1>8. \A i : /\ Delayed(i)' = Delayed(i) /\ Waiting(i)' = Waiting(i)
             /\ Ticking(i)' = Ticking(i) /\ Flying(i)' = Flying(i)
  BY <1>2 DEF Delayed, Waiting, Ticking, Flying
<1>9. active' = j
  BY <1>2, GiveUpFacts
<1>10. Chains'
  <2>1. Chain(j) = 0
    BY <1>0, <1>1, <1>5 DEF Timely, Chains
  <2>2. Chain(j)' = 1
    <3>1. One(Scheduling(j)) = 0 /\ One(Scheduling(j)') = 1
      BY <1>7 DEF One
    <3> QED BY <1>8, <2>1, <3>1, CountTypes DEF Chain
  <2>3. \A i : i # j => Chain(i)' = Chain(i)
    BY <1>7, <1>8 DEF Chain
  <2>4. \A i \in 1 .. j : i # j => i \in 1 .. inners
    BY <1>0, <1>1
  <2>5. \A i \in Ids \ 1 .. j : Chain(i)' = 0
    BY <1>5, <2>3 DEF Timely, Chains
  <2>6. \A i \in 1 .. j : Chain(i)' <= 1 /\ (j = i => Chain(i)' = 1)
    BY <2>2, <2>3, <2>4 DEF Timely, Chains
  <2> QED BY <1>2, <1>9, <2>5, <2>6 DEF Chains
<1>11. Lateness'
  <2> SUFFICES ASSUME NEW i \in 1 .. MaxCalls
               PROVE  /\ late[i] \in {0, 1}
                      /\ (i > j \/ Referred(i)' \/ Flying(i) # {} \/ i \in stoppedIn') => late[i] = 0
                      /\ (i > j \/ i \in stoppedIn') => (Flying(i) = {} /\ ~Referred(i)')
    BY <1>2, <1>8 DEF Lateness
  <2>1. /\ late[i] \in {0, 1}
        /\ (i > inners \/ Referred(i) \/ Flying(i) # {} \/ i \in stoppedIn) => late[i] = 0
        /\ (i > inners \/ i \in stoppedIn) => (Flying(i) = {} /\ ~Referred(i))
    BY DEF Timely, Lateness
  <2>2. i # j /\ Referred(i)' => Referred(i)
    BY <1>7, <1>9 DEF Referred
  <2>3. i \in stoppedIn' /\ i \notin stoppedIn
          => i = active /\ Starters(i) = {} /\ Flying(i) = {}
    BY <1>2, GiveUpFacts
  <2>4. (i > j => i > inners /\ i # j) /\ (i = j => i > inners)
    BY <1>0, <1>1
  <2>5. i \in stoppedIn' => i # j
    BY <1>0, <1>2, <1>5, <2>3 DEF Shape, TimerShape
  <2>6. i = active /\ Starters(i) = {} /\ i # j => Referred(i) /\ ~Referred(i)'
    BY <1>7, <1>9 DEF Referred
  <2> QED BY <2>1, <2>2, <2>3, <2>4, <2>5, <2>6
<1> QED BY <1>6, <1>10, <1>11 DEF Timely

LEMMA TimerStopTimely ==
    ASSUME Shape, Placed, Timely, NEW c \in Callers, TimerStop(c)
    PROVE  Timely'
<1>1. MayCall(c) /\ GiveUp(c, 0) /\ UNCHANGED <<fifo, later, run, call, inners, late>>
  BY DEF TimerStop
<1>2. /\ active' = 0
      /\ \/ stoppedIn' = stoppedIn
         \/ /\ stoppedIn' = stoppedIn \cup {active} /\ active # 0
            /\ Starters(active) = {} /\ \A i : Flying(i) = {}
  BY <1>1, GiveUpFacts
<1>3. StartsOnce'
  BY <1>1 DEF Timely, StartsOnce, Started
<1>4. \A i : Chain(i)' = Chain(i) /\ Starters(i)' = Starters(i) /\ Flying(i)' = Flying(i)
  BY <1>1 DEF Chain, Delayed, Waiting, Ticking, Scheduling, Starters, Flying
<1>5. Chains'
  BY <1>1, <1>2, <1>4, ChainsSame DEF Timely
<1>6. Lateness'
  <2> SUFFICES ASSUME NEW i \in 1 .. MaxCalls
               PROVE  /\ late[i] \in {0, 1}
                      /\ (i > inners \/ Referred(i)' \/ Flying(i) # {} \/ i \in stoppedIn')
                           => late[i] = 0
                      /\ (i > inners \/ i \in stoppedIn') => (Flying(i) = {} /\ ~Referred(i)')
    BY <1>1, <1>4 DEF Lateness
  <2>1. /\ late[i] \in {0, 1}
        /\ (i > inners \/ Referred(i) \/ Flying(i) # {} \/ i \in stoppedIn) => late[i] = 0
        /\ (i > inners \/ i \in stoppedIn) => (Flying(i) = {} /\ ~Referred(i))
    BY DEF Timely, Lateness
  <2>2. Referred(i)' <=> Starters(i) # {}
    BY <1>2, <1>4 DEF Referred
  <2>3. i = active \/ Starters(i) # {} => Referred(i)
    BY DEF Referred
  <2>4. i \in stoppedIn' /\ i \notin stoppedIn
          => i = active /\ Starters(i) = {} /\ Flying(i) = {}
    BY <1>2
  <2> QED BY <2>1, <2>2, <2>3, <2>4
<1> QED BY <1>3, <1>5, <1>6 DEF Timely

\* A start has scheduled the first tick of its inner.
LEMMA StartSchedulesTimely ==
    ASSUME Shape, Timely, NEW c \in Callers, StartSchedules(c)
    PROVE  Timely'
<1>0. /\ RunnerShape /\ TimerRunner \in Runners
      /\ call[c] \in CallsInProgress /\ Started(c) /\ call[c].at = "schedule"
      /\ UNCHANGED <<fifo, run, timerVars>>
  BY ClientsAssumption DEF Shape, RunnerShape, Runners, StartSchedules, Started
<1>1. PICK n \in Ids : n = call[c].id
  BY <1>0 DEF CallsInProgress
<1>2. PICK p \in CallsInProgress : /\ p.op = "start" /\ p.id = n /\ p.at = "return"
                                   /\ call' = [call EXCEPT ![c] = p]
  <2>1. PICK q \in CallsInProgress : q = call[c]
    BY <1>0
  <2>2. q.op = "start"
    BY <1>0, <2>1 DEF Started
  <2>3. /\ [q EXCEPT !.at = "return"] \in CallsInProgress
        /\ [q EXCEPT !.at = "return"].op = "start" /\ [q EXCEPT !.at = "return"].id = q.id
        /\ [q EXCEPT !.at = "return"].at = "return"
    BY <2>2 DEF CallsInProgress
  <2>4. call' = [call EXCEPT ![c] = [q EXCEPT !.at = "return"]]
    BY <2>1 DEF StartSchedules
  <2> QED BY <1>1, <2>1, <2>3, <2>4
<1>3. /\ Started(c)' /\ call'[c].id = n /\ call'[c].at = "return"
      /\ \A d \in Callers \ {c} : call'[d] = call[d] /\ Started(d)' = Started(d)
  BY <1>0, <1>2, ClientsAssumption DEF RunnerShape, Started
<1>4. StartsOnce'
  BY <1>0, <1>1, <1>3 DEF Timely, StartsOnce, timerVars
<1>5. \A i : Starters(i)' = Starters(i)
  BY <1>0, <1>1, <1>3 DEF Starters, Started
<1>6. /\ \A i : i # n => Scheduling(i)' = Scheduling(i)
      /\ Scheduling(n) = {c} /\ Scheduling(n)' = {}
  <2>1. \A i : i # n => c \notin Starters(i)
    BY <1>1 DEF Starters
  <2>2. \A i : i # n => Scheduling(i)' = Scheduling(i)
    BY <1>3, <1>5, <2>1 DEF Scheduling, Starters
  <2>3. Starters(n) = {c}
    BY <1>0, <1>1 DEF Timely, StartsOnce, Starters, Started
  <2> QED BY <1>0, <1>3, <1>5, <2>2, <2>3 DEF Scheduling
<1>7. /\ \A i : i # n => Delayed(i)' = Delayed(i)
      /\ Delayed(n)' = Delayed(n) + 1
  <2>1. Tick(n) \in Works
    BY TickWork
  <2>2. later'[TimerRunner] = Append(later[TimerRunner], Tick(n)) /\ later[TimerRunner] \in Seq(Works)
    BY <1>0, <1>1, <2>1, PostedDelayedFacts DEF StartSchedules, RunnerShape
  <2>3. \A i : CountIn(Append(later[TimerRunner], Tick(n)), {Tick(i)})
                 = CountIn(later[TimerRunner], {Tick(i)}) + (IF Tick(n) \in {Tick(i)} THEN 1 ELSE 0)
    BY <2>1, <2>2, CountAppend
  <2>4. \A i : i # n => Tick(n) \notin {Tick(i)}
    BY TickIds
  <2>5. \A i : CountIn(later[TimerRunner], {Tick(i)}) \in Nat
    BY <2>2, PlacesFinite
  <2> QED BY <2>2, <2>3, <2>4, <2>5 DEF Delayed
<1>8. \A i : /\ Waiting(i)' = Waiting(i) /\ Ticking(i)' = Ticking(i) /\ Flying(i)' = Flying(i)
  BY <1>0 DEF Waiting, Ticking, Flying
<1>9. \A i : Chain(i)' = Chain(i)
  <2>1. \A i : i # n => Chain(i)' = Chain(i)
    BY <1>6, <1>7, <1>8 DEF Chain
  <2>2. One(Scheduling(n)) = 1 /\ One(Scheduling(n)') = 0
    BY <1>6 DEF One
  <2>3. Chain(n)' = Chain(n)
    BY <1>7, <1>8, <2>2, CountTypes DEF Chain
  <2> QED BY <2>1, <2>3
<1>10. Chains' /\ Lateness'
  BY <1>0, <1>5, <1>8, <1>9, ChainsSame, LatenessSame DEF Timely, timerVars
<1> QED BY <1>4, <1>10 DEF Timely

LEMMA StartReturnsTimely ==
    ASSUME Shape, Timely, NEW c \in Callers, StartReturns(c)
    PROVE  Timely'
<1>0. /\ RunnerShape /\ call[c].at = "return" /\ UNCHANGED <<fifo, later, run, timerVars>>
      /\ call' = [call EXCEPT ![c] = Nothing]
  BY DEF Shape, StartReturns
<1>1. ~Started(c)' /\ \A d \in Callers \ {c} : call'[d] = call[d] /\ Started(d)' = Started(d)
  BY <1>0 DEF RunnerShape, Started
<1>2. StartsOnce'
  BY <1>0, <1>1 DEF Timely, StartsOnce, timerVars
<1>3. \A i : Starters(i)' \subseteq Starters(i) /\ Scheduling(i)' = Scheduling(i)
  <2>1. \A i : Starters(i) = {d \in Callers : Started(d) /\ call[d].id = i}
    BY DEF Starters, Started
  <2>2. \A i : Starters(i)' = {d \in Callers : Started(d)' /\ call'[d].id = i}
    BY DEF Starters, Started
  <2>3. \A i : Starters(i)' = Starters(i) \ {c}
    BY <1>1, <2>1, <2>2
  <2>4. \A i : \A d \in Starters(i) : d \in Callers
    BY <2>1
  <2> QED BY <1>0, <1>1, <2>3, <2>4 DEF Scheduling
<1>4. \A i : /\ Delayed(i)' = Delayed(i) /\ Waiting(i)' = Waiting(i)
             /\ Ticking(i)' = Ticking(i) /\ Flying(i)' = Flying(i)
  BY <1>0 DEF Delayed, Waiting, Ticking, Flying
<1>5. \A i : Chain(i)' = Chain(i)
  BY <1>3, <1>4 DEF Chain
<1>6. Chains' /\ Lateness'
  BY <1>0, <1>3, <1>4, <1>5, ChainsSame, LatenessSame DEF Timely, timerVars
<1> QED BY <1>2, <1>6 DEF Timely

LEMMA DropHandlerTimely ==
    ASSUME Shape, Timely, NEW c \in Callers, DropHandler(c)
    PROVE  Timely'
<1>1. UNCHANGED <<fifo, later, run, call, active, inners, late, stoppedIn>>
  BY DEF DropHandler
<1>2. /\ StartsOnce' = StartsOnce
      /\ \A i : Chain(i)' = Chain(i) /\ Referred(i)' = Referred(i) /\ Flying(i)' = Flying(i)
  BY <1>1 DEF StartsOnce, Started, Chain, Delayed, Waiting, Ticking, Scheduling, Starters,
     Flying, Referred
<1>3. Chains'
  BY <1>1, <1>2, ChainsSame DEF Timely
<1>4. Lateness'
  BY <1>1, <1>2 DEF Timely, Lateness
<1> QED BY <1>2, <1>3, <1>4 DEF Timely

\* A deadline has passed: the tick is in the other queue.
LEMMA DeadlineTimely ==
    ASSUME Shape, Placed, Timely, NEW r \in Runners, NEW w, Deadline(r, w)
    PROVE  Timely'
<1>0. RunnerShape /\ TimerRunner \in Runners
  BY ClientsAssumption DEF Shape, Runners
<1>1. /\ w \in Works /\ w \in Range(later[r]) /\ fifo' = Posted(r, w)
      /\ later' = [later EXCEPT ![r] = RemoveFirst(later[r], w)]
      /\ UNCHANGED <<run, call, timerVars>>
  BY <1>0, ExpireFacts DEF Deadline, callVars
<1>2. StartsKept
  BY <1>1 DEF StartsKept, Started
<1>3. /\ StartsOnce'
      /\ \A i : Starters(i)' = Starters(i) /\ Scheduling(i)' = Scheduling(i)
  BY <1>1, <1>2, StartsSame DEF Timely, timerVars
<1>4. \A i : Ticking(i)' = Ticking(i) /\ Flying(i)' = Flying(i)
  BY <1>1 DEF Ticking, Flying
<1>5. \A i : Delayed(i)' + Waiting(i)' = Delayed(i) + Waiting(i)
  <2>1. CASE r # TimerRunner
    <3>1. later'[TimerRunner] = later[TimerRunner] /\ fifo'[TimerRunner] = fifo[TimerRunner]
      BY <1>0, <1>1, <2>1, PostedFacts DEF RunnerShape
    <3> QED BY <3>1 DEF Delayed, Waiting
  <2>2. CASE r = TimerRunner
    <3>1. /\ later[r] \in Seq(Works) /\ fifo[r] \in Seq(Works)
          /\ later'[r] = RemoveFirst(later[r], w) /\ fifo'[r] = Append(fifo[r], w)
      BY <1>0, <1>1, PostedFacts DEF RunnerShape
    <3>2. RemoveFirst(later[r], w) \in Seq(Works)
      BY <3>1, RemoveFirstFacts
    <3> SUFFICES ASSUME NEW i
                 PROVE  Delayed(i)' + Waiting(i)' = Delayed(i) + Waiting(i)
      OBVIOUS
    <3>3. PICK n \in {0, 1} : n = IF w \in {Tick(i)} THEN 1 ELSE 0
      OBVIOUS
    <3>4. CountIn(later[r], {Tick(i)}) = CountIn(RemoveFirst(later[r], w), {Tick(i)}) + n
      BY <1>1, <3>1, <3>3, CountRemoveFirst
    <3>5. CountIn(Append(fifo[r], w), {Tick(i)}) = CountIn(fifo[r], {Tick(i)}) + n
      BY <1>1, <3>1, <3>3, CountAppend
    <3>6. /\ CountIn(RemoveFirst(later[r], w), {Tick(i)}) \in Nat
          /\ CountIn(fifo[r], {Tick(i)}) \in Nat
      BY <3>1, <3>2, PlacesFinite
    <3>7. Delayed(i)' + Waiting(i)' = CountIn(RemoveFirst(later[r], w), {Tick(i)})
                                      + (CountIn(fifo[r], {Tick(i)}) + n)
      BY <2>2, <3>1, <3>5 DEF Delayed, Waiting
    <3>8. Delayed(i) + Waiting(i) = (CountIn(RemoveFirst(later[r], w), {Tick(i)}) + n)
                                    + CountIn(fifo[r], {Tick(i)})
      BY <2>2, <3>4 DEF Delayed, Waiting
    <3> QED BY <3>6, <3>7, <3>8
  <2> QED BY <2>1, <2>2
<1>6. \A i : Chain(i)' = Chain(i)
  BY <1>3, <1>4, <1>5 DEF Chain
<1>7. Chains' /\ Lateness'
  BY <1>1, <1>3, <1>4, <1>6, ChainsSame, LatenessSame DEF Timely, timerVars
<1> QED BY <1>3, <1>7 DEF Timely

\* Where the ticks are while a thread is in one: there alone.
LEMMA TickThread ==
    ASSUME Shape, Placed, NEW t \in Threads, run[t] # Nothing, run[t].task.kind = "tick"
    PROVE  \E n \in Ids :
              /\ run[t].task = Tick(n) /\ run[t].task.id = n
              /\ \A i : Ticking(i) = IF i = n /\ run[t].at \in {"begin", "schedule"}
                                       THEN {t} ELSE {}
              /\ \A i : Flying(i) = IF i = n /\ run[t].at \in {"schedule", "callback"}
                                      THEN {t} ELSE {}
              /\ \A a, l : Moved(t, a, l) =>
                    /\ \A i : Ticking(i)' = IF i = n /\ a \in {"begin", "schedule"}
                                              THEN {t} ELSE {}
                    /\ \A i : Flying(i)' = IF i = n /\ a \in {"schedule", "callback"}
                                             THEN {t} ELSE {}
              /\ Ended(t) => \A i : Ticking(i)' = {} /\ Flying(i)' = {}
<1>1. run[t].task \in Works /\ run[t].runner = TimerRunner
  BY DEF Shape, RunnerShape, Runs, Placed, Home
<1>2. PICK n \in Ids : run[t].task = Tick(n) /\ run[t].task.id = n
  <2>1. \A w \in Works : w.kind = "tick" => w = Tick(w.id)
    BY DEF Works, BusWorks, FileWorks, Answers, BusKinds, FileKinds, Whole, Changes, Tick, Work
  <2>2. run[t].task.id \in Ids
    BY <1>1, WorkTypes
  <2> QED BY <1>1, <2>1, <2>2
<1>3. \A i : Ticking(i) \subseteq {t} /\ Flying(i) \subseteq {t}
  BY <1>1, OneTick
<1>4. \A i : Tick(i) = Tick(n) <=> i = n
  BY TickIds
<1>5. \A u \in Threads \ {t} : run[u] # Nothing => \A i : run[u].task # Tick(i)
  BY <1>1 DEF Placed, Home, Tick, Work
<1>6. \A i : /\ t \in Ticking(i) <=> i = n /\ run[t].at \in {"begin", "schedule"}
             /\ t \in Flying(i) <=> i = n /\ run[t].at \in {"schedule", "callback"}
  BY <1>2, <1>4 DEF Ticking, Flying
<1>7. ASSUME NEW a, NEW l, Moved(t, a, l), NEW i
      PROVE  /\ Ticking(i)' = IF i = n /\ a \in {"begin", "schedule"} THEN {t} ELSE {}
             /\ Flying(i)' = IF i = n /\ a \in {"schedule", "callback"} THEN {t} ELSE {}
  <2>1. Ticking(i)' \subseteq {t} /\ Flying(i)' \subseteq {t}
    BY <1>5, <1>7 DEF Moved, Others, Ticking, Flying
  <2>2. /\ t \in Ticking(i)' <=> i = n /\ a \in {"begin", "schedule"}
        /\ t \in Flying(i)' <=> i = n /\ a \in {"schedule", "callback"}
    BY <1>2, <1>4, <1>7 DEF Moved, Ticking, Flying
  <2> QED BY <2>1, <2>2
<1>8. ASSUME Ended(t), NEW i
      PROVE  Ticking(i)' = {} /\ Flying(i)' = {}
  BY <1>5, <1>8 DEF Ended, Others, Ticking, Flying
<1>9. \A i : /\ Ticking(i) = IF i = n /\ run[t].at \in {"begin", "schedule"} THEN {t} ELSE {}
             /\ Flying(i) = IF i = n /\ run[t].at \in {"schedule", "callback"} THEN {t} ELSE {}
  BY <1>3, <1>6
<1> QED BY <1>2, <1>7, <1>8, <1>9

LEMMA TickBeginTimely ==
    ASSUME Shape, Placed, Timely, NEW t \in Threads, TickBegin(t)
    PROVE  Timely'
<1>0. /\ RunnerShape /\ run[t] # Nothing /\ run[t].task.kind = "tick" /\ run[t].at = "begin"
      /\ UNCHANGED <<fifo, later, call, timerVars>>
  BY DEF Shape, TickBegin, Is, callVars
<1>1. PICK n \in Ids :
         /\ run[t].task = Tick(n) /\ run[t].task.id = n
         /\ \A i : Ticking(i) = IF i = n THEN {t} ELSE {}
         /\ \A i : Flying(i) = {}
         /\ \A a, l : Moved(t, a, l) =>
               /\ \A i : Ticking(i)' = IF i = n /\ a \in {"begin", "schedule"} THEN {t} ELSE {}
               /\ \A i : Flying(i)' = IF i = n /\ a \in {"schedule", "callback"} THEN {t} ELSE {}
         /\ Ended(t) => \A i : Ticking(i)' = {} /\ Flying(i)' = {}
  BY <1>0, TickThread
<1>2. /\ StartsOnce'
      /\ \A i : Starters(i)' = Starters(i) /\ Scheduling(i)' = Scheduling(i)
  <2>1. StartsKept
    BY <1>0 DEF StartsKept, Started
  <2> QED BY <1>0, <2>1, StartsSame DEF Timely, timerVars
<1>3. \A i : Delayed(i)' = Delayed(i) /\ Waiting(i)' = Waiting(i)
  BY <1>0 DEF Delayed, Waiting
<1>4. InnerAlive(n) <=> Referred(n)
  <2>1. \A u \in Threads : ~(Is(u, {"tick"}, "schedule") /\ run[u].task.id = n)
    <3> SUFFICES ASSUME NEW u \in Threads, Is(u, {"tick"}, "schedule") PROVE FALSE
      OBVIOUS
    <3>1. u = t
      BY <1>0 DEF Is, Placed, Home
    <3> QED BY <1>0, <3>1 DEF Is
  <2> QED BY <2>1 DEF InnerAlive, Referred
<1>5. CASE InnerAlive(n)
  <2>1. Moved(t, "schedule", run[t].locals)
    BY <1>0, <1>1, <1>5, MoveToFacts DEF TickBegin, Points
  <2>2. \A i : Ticking(i)' = Ticking(i) /\ Flying(i)' = IF i = n THEN {t} ELSE {}
    BY <1>1, <2>1
  <2>3. \A i : Chain(i)' = Chain(i)
    BY <1>2, <1>3, <2>2 DEF Chain
  <2>4. Chains'
    BY <1>0, <2>3, ChainsSame DEF Timely, timerVars
  <2>5. Lateness'
    <3>1. \A i : Referred(i)' = Referred(i)
      BY <1>0, <1>2 DEF Referred, timerVars
    <3>2. \A i : i # n => Flying(i)' = Flying(i)
      BY <1>1, <2>2
    <3>3. Referred(n)
      BY <1>4, <1>5
    <3> QED BY <1>0, <3>1, <3>2, <3>3 DEF Timely, Lateness, timerVars
  <2> QED BY <1>2, <2>4, <2>5 DEF Timely
<1>6. CASE ~InnerAlive(n)
  <2>1. Ended(t)
    BY <1>0, <1>1, <1>6, EndedFacts DEF TickBegin
  <2>2. \A i : Ticking(i)' = {} /\ Flying(i)' = {}
    BY <1>1, <2>1
  <2>3. Lateness'
    BY <1>0, <1>1, <1>2, <2>2, LatenessSame DEF Timely
  <2>4. active # n
    BY <1>4, <1>6 DEF Referred
  <2>5. \A i : i # n => Chain(i)' = Chain(i)
    BY <1>1, <1>2, <1>3, <2>2 DEF Chain
  <2>6. Chain(n) \in Nat /\ Chain(n)' \in Nat /\ Chain(n) = Chain(n)' + 1
    <3>1. One(Ticking(n)) = 1 /\ One(Ticking(n)') = 0
      BY <1>1, <2>2 DEF One
    <3> QED BY <1>2, <1>3, <3>1, CountTypes DEF Chain
  <2>7. n \in 1 .. inners
    BY <2>6 DEF Timely, Chains
  <2>8. Chain(n)' <= 1
    <3>1. Chain(n) <= 1
      BY <2>7 DEF Timely, Chains
    <3> QED BY <2>6, <3>1
  <2>9. Chains'
    <3>1. \A i \in Ids \ 1 .. inners : Chain(i)' = 0
      BY <2>5, <2>7 DEF Timely, Chains
    <3>2. \A i \in 1 .. inners : Chain(i)' <= 1 /\ (active = i => Chain(i)' = 1)
      BY <2>4, <2>5, <2>8 DEF Timely, Chains
    <3> QED BY <1>0, <3>1, <3>2 DEF Chains, timerVars
  <2> QED BY <1>2, <2>3, <2>9 DEF Timely
<1> QED BY <1>5, <1>6

LEMMA TickSchedulesTimely ==
    ASSUME Shape, Placed, Timely, NEW t \in Threads, TickSchedules(t)
    PROVE  Timely'
<1>0. /\ RunnerShape /\ run[t] # Nothing /\ run[t].task.kind = "tick" /\ run[t].at = "schedule"
      /\ UNCHANGED <<fifo, call, timerVars>> /\ TimerRunner \in Runners
      /\ Moved(t, "callback", run[t].locals)
  BY ClientsAssumption, MoveToFacts
     DEF Shape, Runners, TickSchedules, Is, callVars, Points
<1>1. PICK n \in Ids :
         /\ run[t].task = Tick(n) /\ run[t].task.id = n
         /\ \A i : Ticking(i) = IF i = n THEN {t} ELSE {}
         /\ \A i : Flying(i) = IF i = n THEN {t} ELSE {}
         /\ \A i : Ticking(i)' = {}
         /\ \A i : Flying(i)' = IF i = n THEN {t} ELSE {}
  BY <1>0, TickThread
<1>2. /\ StartsOnce'
      /\ \A i : Starters(i)' = Starters(i) /\ Scheduling(i)' = Scheduling(i)
  <2>1. StartsKept
    BY <1>0 DEF StartsKept, Started
  <2> QED BY <1>0, <2>1, StartsSame DEF Timely, timerVars
<1>3. /\ \A i : i # n => Delayed(i)' = Delayed(i)
      /\ Delayed(n)' = Delayed(n) + 1
      /\ \A i : Waiting(i)' = Waiting(i)
  <2>1. Tick(n) \in Works
    BY TickWork
  <2>2. later'[TimerRunner] = Append(later[TimerRunner], Tick(n)) /\ later[TimerRunner] \in Seq(Works)
    BY <1>0, <1>1, <2>1, PostedDelayedFacts DEF TickSchedules, RunnerShape
  <2>3. \A i : CountIn(Append(later[TimerRunner], Tick(n)), {Tick(i)})
                 = CountIn(later[TimerRunner], {Tick(i)}) + (IF Tick(n) \in {Tick(i)} THEN 1 ELSE 0)
    BY <2>1, <2>2, CountAppend
  <2>4. \A i : i # n => Tick(n) \notin {Tick(i)}
    BY TickIds
  <2>5. \A i : CountIn(later[TimerRunner], {Tick(i)}) \in Nat
    BY <2>2, PlacesFinite
  <2> QED BY <1>0, <2>2, <2>3, <2>4, <2>5 DEF Delayed, Waiting
<1>4. \A i : Chain(i)' = Chain(i)
  <2>1. \A i : i # n => Chain(i)' = Chain(i)
    BY <1>1, <1>2, <1>3 DEF Chain
  <2>2. One(Ticking(n)) = 1 /\ One(Ticking(n)') = 0
    BY <1>1 DEF One
  <2>3. Chain(n)' = Chain(n)
    BY <1>2, <1>3, <2>2, CountTypes DEF Chain
  <2> QED BY <2>1, <2>3
<1>5. Chains' /\ Lateness'
  BY <1>0, <1>1, <1>2, <1>4, ChainsSame, LatenessSame DEF Timely, timerVars
<1> QED BY <1>2, <1>5 DEF Timely

\* The callback: late only if nothing refers to its inner any more.
LEMMA TickCallsTimely ==
    ASSUME Shape, Placed, Timely, NEW t \in Threads, TickCalls(t)
    PROVE  Timely'
<1>0. /\ RunnerShape /\ run[t] # Nothing /\ run[t].task.kind = "tick" /\ run[t].at = "callback"
      /\ UNCHANGED <<fifo, later, call, active, inners, stoppedIn>>
      /\ Moved(t, "user", run[t].locals) \/ Ended(t)
  BY MoveToFacts, EndedFacts DEF Shape, TickCalls, Is, callVars, Points
<1>1. PICK n \in Ids :
         /\ run[t].task.id = n
         /\ \A i : Ticking(i) = {} /\ Ticking(i)' = {}
         /\ \A i : Flying(i) = IF i = n THEN {t} ELSE {}
         /\ \A i : Flying(i)' = {}
  BY <1>0, TickThread
<1>2. /\ StartsOnce'
      /\ \A i : Starters(i)' = Starters(i) /\ Scheduling(i)' = Scheduling(i)
  <2>1. StartsKept
    BY <1>0 DEF StartsKept, Started
  <2> QED BY <1>0, <2>1, StartsSame DEF Timely
<1>3. \A i : Chain(i)' = Chain(i)
  BY <1>0, <1>1, <1>2 DEF Chain, Delayed, Waiting
<1>4. Chains'
  BY <1>0, <1>3, ChainsSame DEF Timely
<1>5. late' = IF Referred(n) THEN late ELSE [late EXCEPT ![n] = late[n] + 1]
  BY <1>1 DEF TickCalls, Referred
<1>6. \A i : Referred(i)' = Referred(i)
  BY <1>0, <1>2 DEF Referred
<1>7. Lateness'
  <2> SUFFICES ASSUME NEW i \in 1 .. MaxCalls
               PROVE  /\ late'[i] \in {0, 1}
                      /\ (i > inners \/ Referred(i) \/ i \in stoppedIn) => late'[i] = 0
                      /\ (i > inners \/ i \in stoppedIn) => ~Referred(i)
    BY <1>0, <1>1, <1>6 DEF Lateness
  <2>1. /\ late[i] \in {0, 1}
        /\ (i > inners \/ Referred(i) \/ Flying(i) # {} \/ i \in stoppedIn) => late[i] = 0
        /\ (i > inners \/ i \in stoppedIn) => (Flying(i) = {} /\ ~Referred(i))
    BY DEF Timely, Lateness
  <2>2. CASE i # n \/ Referred(n)
    <3>1. late'[i] = late[i]
      BY <1>5, <2>2 DEF Shape, TimerShape
    <3> QED BY <2>1, <3>1
  <2>3. CASE i = n /\ ~Referred(n)
    <3>1. late[i] = 0 /\ ~(i > inners) /\ i \notin stoppedIn
      BY <1>1, <2>1, <2>3
    <3>2. late'[i] = 1
      BY <1>5, <2>3, <3>1 DEF Shape, TimerShape
    <3> QED BY <2>3, <3>1, <3>2
  <2> QED BY <2>2, <2>3
<1> QED BY <1>2, <1>4, <1>7 DEF Timely

LEMMA TickReturnsTimely ==
    ASSUME Shape, Placed, Timely, NEW t \in Threads, TickReturns(t)
    PROVE  Timely'
<1>0. /\ RunnerShape /\ run[t] # Nothing /\ run[t].task.kind = "tick" /\ run[t].at = "user"
      /\ UNCHANGED <<fifo, later, call, timerVars>> /\ Ended(t)
  BY EndedFacts DEF Shape, TickReturns, Is, callVars
<1>1. \A i : /\ Ticking(i) = {} /\ Ticking(i)' = {}
             /\ Flying(i) = {} /\ Flying(i)' = {}
  BY <1>0, TickThread
<1>2. /\ StartsOnce'
      /\ \A i : Starters(i)' = Starters(i) /\ Scheduling(i)' = Scheduling(i)
  <2>1. StartsKept
    BY <1>0 DEF StartsKept, Started
  <2> QED BY <1>0, <2>1, StartsSame DEF Timely, timerVars
<1>3. \A i : Chain(i)' = Chain(i)
  BY <1>0, <1>1, <1>2 DEF Chain, Delayed, Waiting
<1>4. Chains' /\ Lateness'
  BY <1>0, <1>1, <1>2, <1>3, ChainsSame, LatenessSame DEF Timely, timerVars
<1> QED BY <1>2, <1>4 DEF Timely

\* A thread takes up the next task: a tick goes from the queue to the thread.
LEMMA TakeTimely ==
    ASSUME Shape, Placed, Timely, NEW r \in Runners, Take(r)
    PROVE  Timely'
<1>0. /\ RunnerShape /\ TimerRunner \in Runners /\ UNCHANGED call
  BY ClientsAssumption DEF Shape, Runners, Take, StartNext, Start, callVars
<1>1. PICK t \in Threads : Takes(t, r)
  BY TakeFacts
<1> DEFINE h == Head(fifo[r])
<1>2. /\ run[t] = Nothing /\ run'[t] # Nothing /\ run'[t].task = h /\ run'[t].at = "begin"
      /\ Others(t) /\ UNCHANGED <<later, timerVars>> /\ h \in Works /\ Home(h, r)
      /\ fifo[r] # <<>> /\ fifo[r] \in Seq(Works) /\ fifo'[r] = Tail(fifo[r])
      /\ \A q \in Runners \ {r} : fifo'[q] = fifo[q]
      /\ \A u \in Threads : run[u] # Nothing => run[u].runner # r
  BY <1>0, <1>1 DEF Takes, RunnerShape
<1>3. Tail(fifo[r]) \in Seq(Works)
  BY <1>2, HeadTailProperties
<1>4. \A V : CountIn(fifo[r], V) = CountIn(Tail(fifo[r]), V) + (IF h \in V THEN 1 ELSE 0)
  BY <1>2, CountTail
<1> HIDE DEF h
<1>5. /\ StartsOnce'
      /\ \A i : Starters(i)' = Starters(i) /\ Scheduling(i)' = Scheduling(i)
  <2>1. StartsKept
    BY <1>0 DEF StartsKept, Started
  <2> QED BY <1>2, <2>1, StartsSame DEF Timely, timerVars
<1>6. \A i : Flying(i)' = Flying(i)
  BY <1>2 DEF Others, Flying
<1>7. \A i : Delayed(i)' = Delayed(i)
  BY <1>2 DEF Delayed
<1>8. \A i : Waiting(i)' + One(Ticking(i)') = Waiting(i) + One(Ticking(i))
  <2> SUFFICES ASSUME NEW i
               PROVE  Waiting(i)' + One(Ticking(i)') = Waiting(i) + One(Ticking(i))
    OBVIOUS
  <2>1. Tick(i).kind = "tick"
    BY DEF Tick, Work
  <2>2. CASE h = Tick(i)
    <3>1. r = TimerRunner
      BY <1>2, <2>1, <2>2 DEF Home
    <3>2. Ticking(i) = {}
      BY <1>2, <2>1, <3>1 DEF Ticking, Placed, Home
    <3>3. Ticking(i)' = {t}
      BY <1>2, <2>2, <3>2 DEF Others, Ticking
    <3>4. One(Ticking(i)) = 0 /\ One(Ticking(i)') = 1
      BY <3>2, <3>3 DEF One
    <3>5. CountIn(Tail(fifo[r]), {Tick(i)}) \in Nat
      BY <1>3, PlacesFinite
    <3>6. Waiting(i)' = CountIn(Tail(fifo[r]), {Tick(i)}) /\ Waiting(i) = Waiting(i)' + 1
      BY <1>2, <1>4, <2>2, <3>1 DEF Waiting
    <3> QED BY <3>4, <3>5, <3>6
  <2>3. CASE h # Tick(i)
    <3>1. Ticking(i)' = Ticking(i)
      BY <1>2, <2>3 DEF Others, Ticking
    <3>2. Waiting(i)' = Waiting(i)
      <4>1. CASE r = TimerRunner
        <5>1. CountIn(Tail(fifo[r]), {Tick(i)}) \in Nat /\ h \notin {Tick(i)}
          BY <1>3, <2>3, PlacesFinite
        <5>2. CountIn(fifo[r], {Tick(i)}) = CountIn(Tail(fifo[r]), {Tick(i)})
          BY <1>4, <5>1
        <5> QED BY <1>2, <4>1, <5>2 DEF Waiting
      <4>2. CASE r # TimerRunner
        BY <1>0, <1>2, <4>2 DEF Waiting
      <4> QED BY <4>1, <4>2
    <3> QED BY <3>1, <3>2
  <2> QED BY <2>2, <2>3
<1>9. \A i : Chain(i)' = Chain(i)
  <2> SUFFICES ASSUME NEW i PROVE Chain(i)' = Chain(i)
    OBVIOUS
  <2>1. /\ Chain(i) = Delayed(i) + Waiting(i) + One(Ticking(i)) + One(Scheduling(i))
        /\ Chain(i)' = Delayed(i) + Waiting(i)' + One(Ticking(i)') + One(Scheduling(i))
    BY <1>5, <1>7 DEF Chain
  <2>2. Waiting(i)' \in Nat /\ One(Ticking(i)') \in {0, 1}
    <3>1. fifo'[TimerRunner] \in Seq(Works)
      BY <1>0, <1>2, <1>3 DEF RunnerShape
    <3> QED BY <3>1, PlacesFinite DEF Waiting, One
  <2> QED BY <1>8, <2>1, <2>2, CountTypes
<1>10. Chains' /\ Lateness'
  BY <1>2, <1>5, <1>6, <1>9, ChainsSame, LatenessSame DEF Timely, timerVars
<1> QED BY <1>5, <1>10 DEF Timely

LEMMA InitTimely == Init => Timely
<1> SUFFICES ASSUME Init PROVE Timely
  OBVIOUS
<1>1. /\ \A r \in Runners : fifo[r] = <<>> /\ later[r] = <<>>
      /\ \A t \in Threads : run[t] = Nothing
      /\ \A c \in Callers : call[c] = Nothing
      /\ active = 0 /\ inners = 0 /\ stoppedIn = {} /\ late = [i \in 1 .. MaxCalls |-> 0]
  BY DEF Init, RunnersInit, TimerInit
<1>2. \A i : Starters(i) = {} /\ Scheduling(i) = {} /\ Ticking(i) = {} /\ Flying(i) = {}
  BY <1>1 DEF Starters, Scheduling, Ticking, Flying
<1>3. \A i : Delayed(i) = 0 /\ Waiting(i) = 0
  <2>1. TimerRunner \in Runners
    BY ClientsAssumption DEF Runners
  <2>2. \A V : Places(<<>>, V) = {}
    BY DEF Places
  <2> QED BY <1>1, <2>1, <2>2, FS_EmptySet DEF Delayed, Waiting, CountIn
<1>4. \A i : Chain(i) = 0
  BY <1>2, <1>3 DEF Chain, One
<1>5. \A i \in 1 .. MaxCalls : late[i] = 0 /\ ~Referred(i)
  BY <1>1, <1>2 DEF Referred
<1> QED BY <1>1, <1>2, <1>4, <1>5 DEF Timely, StartsOnce, Started, Chains, Lateness

LEMMA TimelyKept == Shape /\ Placed /\ Timely /\ [Next]_vars => Timely'
<1> SUFFICES ASSUME Shape, Placed, Timely, [Next]_vars PROVE Timely'
  OBVIOUS
<1>1. ASSUME NEW c \in Callers, ClientCall(c) \/ CallStep(c)
      PROVE  Timely'
  BY <1>1, OthersTimely, TimerStartTimely, TimerStopTimely, DropHandlerTimely,
     StartSchedulesTimely, StartReturnsTimely DEF ClientCall, CallStep, TimerCall, TimerStep
<1>2. ASSUME NEW t \in Threads, TaskStep(t)
      PROVE  Timely'
  BY <1>2, OthersTimely, TickBeginTimely, TickSchedulesTimely, TickCallsTimely,
     TickReturnsTimely DEF TaskStep, TickStep
<1>3. ASSUME NEW r \in Runners, Take(r) \/ \E w \in Range(later[r]) : Deadline(r, w)
      PROVE  Timely'
  BY <1>3, TakeTimely, DeadlineTimely
<1>4. CASE UNCHANGED vars
  <2>1. UNCHANGED <<fifo, later, run, call, timerVars>>
    BY <1>4 DEF vars, runnerVars, callVars
  <2>2. StartsKept
    BY <2>1 DEF StartsKept, Started
  <2>3. Within({})
    BY <2>1 DEF Within, Goes, Posts
  <2> QED BY <2>1, <2>2, <2>3, TimelyWithin
<1> QED BY <1>1, <1>2, <1>3, <1>4 DEF Next

LEMMA TimelyInvariant == Spec => []Timely
BY ShapeInvariant, PlacedInvariant, InitTimely, TimelyKept, PTL DEF Spec

\* TimerSound holds: a running timer has exactly one chain of ticks, one that was stopped
\* or replaced never a second one, and at most one callback comes late, none where the
\* call was made on the timer's own sequence. Chains counts the places a tick of an inner
\* can be in, which every step of its life leaves the same; Lateness says that only what
\* flies can be late, and that nothing flies when a task of the runner stops the timer.
THEOREM TimerSoundHolds == Spec => []TimerSound
<1>1. Shape /\ Placed /\ Timely => TimerSound
  <2> SUFFICES ASSUME Shape, Placed, Timely PROVE TimerSound
    OBVIOUS
  <2>1. OneChain
    <3>1. \A i : Pending(i) = Chain(i)
      BY ChainIs DEF Timely
    <3> QED BY <3>1 DEF Timely, Chains, OneChain
  <2>2. FewLateTicks
    <3> SUFFICES ASSUME NEW i \in 1 .. inners
                 PROVE  late[i] <= IF i \in stoppedIn THEN 0 ELSE 1
      BY DEF FewLateTicks
    <3>1. i \in 1 .. MaxCalls
      BY RunnersAssumption DEF Shape, RunnerShape, TimerShape, Ids
    <3>2. late[i] \in {0, 1} /\ (i \in stoppedIn => late[i] = 0)
      BY <3>1 DEF Timely, Lateness
    <3> QED BY <3>2
  <2> QED BY <2>1, <2>2 DEF TimerSound
<1> QED BY <1>1, ShapeInvariant, PlacedInvariant, TimelyInvariant, PTL
-----------------------------------------------------------------------------
(* What is owed *)

OwingWorks == {w \in Works : w.kind = "reply" \/ (w.kind = "task" /\ w.id # None)}
Debts(q) == {p \in Runners \X Nat : p[2] \in DOMAIN q[p[1]] /\ q[p[1]][p[2]] \in OwingWorks}
DebtsOf(q, r) == {p \in Debts(q) : p[1] = r}

LEMMA DebtsOfOne ==
    ASSUME NEW q \in [Runners -> Seq(Works)], NEW r \in Runners
    PROVE  /\ IsFiniteSet(DebtsOf(q, r))
           /\ Cardinality(DebtsOf(q, r)) = CountIn(q[r], OwingWorks)
           /\ CountIn(q[r], OwingWorks) \in Nat
<1> DEFINE P == Places(q[r], OwingWorks)
           R == DebtsOf(q, r)
           f == [k \in P |-> <<r, k>>]
<1>1. PICK n \in Nat : DOMAIN q[r] = 1 .. n
  BY LenProperties
<1>2. P \subseteq Nat /\ \A k : k \in P <=> k \in DOMAIN q[r] /\ q[r][k] \in OwingWorks
  BY <1>1 DEF Places
<1>3. \A p : p \in R <=> \E k \in P : p = <<r, k>>
  BY <1>2 DEF DebtsOf, Debts
<1>4. IsFiniteSet(P) /\ Cardinality(P) \in Nat
  BY PlacesFinite DEF CountIn
<1> HIDE DEF P, R
<1>5. f \in [P -> R] /\ \A k \in P : f[k] = <<r, k>>
  BY <1>3
<1> HIDE DEF f
<1>6. \A k, m \in P : f[k] = f[m] => k = m
  BY <1>5
<1>7. \A p \in R : \E k \in P : f[k] = p
  BY <1>3, <1>5
<1>8. f \in Bijection(P, R)
  BY <1>5, <1>6, <1>7 DEF Bijection, Injection, Surjection, IsInjective
<1>9. IsFiniteSet(R) /\ Cardinality(R) = Cardinality(P)
  BY <1>4, <1>8, FS_Bijection DEF ExistsBijection
<1> QED BY <1>4, <1>9 DEF CountIn, P, R

\* One queue changes: so do the debts, by the tasks of that queue.
LEMMA DebtsChange ==
    ASSUME NEW q \in [Runners -> Seq(Works)], NEW s \in [Runners -> Seq(Works)],
           NEW r \in Runners, \A u \in Runners \ {r} : s[u] = q[u], IsFiniteSet(Debts(q))
    PROVE  /\ IsFiniteSet(Debts(s))
           /\ \E m \in Nat : /\ Cardinality(Debts(q)) = m + CountIn(q[r], OwingWorks)
                             /\ Cardinality(Debts(s)) = m + CountIn(s[r], OwingWorks)
<1> DEFINE E == Debts(q) \ DebtsOf(q, r)
<1>1. E = Debts(s) \ DebtsOf(s, r)
  <2>1. \A p : p \in E <=> p \in Debts(q) /\ p[1] # r
    BY DEF DebtsOf
  <2>2. \A p : p \in Debts(s) \ DebtsOf(s, r) <=> p \in Debts(s) /\ p[1] # r
    BY DEF DebtsOf
  <2>3. \A p : p[1] # r => (p \in Debts(q) <=> p \in Debts(s))
    BY DEF Debts
  <2> QED BY <2>1, <2>2, <2>3
<1>2. IsFiniteSet(E)
  BY FS_Difference
<1>3. Cardinality(E) \in Nat
  BY <1>2, FS_CardinalityType
<1>4. /\ Debts(q) = E \cup DebtsOf(q, r) /\ E \cap DebtsOf(q, r) = {}
      /\ Debts(s) = E \cup DebtsOf(s, r) /\ E \cap DebtsOf(s, r) = {}
  BY <1>1 DEF DebtsOf
<1> HIDE DEF E
<1>5. /\ IsFiniteSet(DebtsOf(q, r)) /\ IsFiniteSet(DebtsOf(s, r))
      /\ Cardinality(DebtsOf(q, r)) = CountIn(q[r], OwingWorks)
      /\ Cardinality(DebtsOf(s, r)) = CountIn(s[r], OwingWorks)
      /\ CountIn(q[r], OwingWorks) \in Nat /\ CountIn(s[r], OwingWorks) \in Nat
  BY DebtsOfOne
<1>6. Cardinality({}) = 0
  BY FS_EmptySet
<1>7. ASSUME NEW D, IsFiniteSet(D), E \cap D = {}
      PROVE  /\ IsFiniteSet(E \cup D)
             /\ Cardinality(E \cup D) = Cardinality(E) + Cardinality(D) - 0
  BY <1>2, <1>6, <1>7, FS_Union
<1>8. /\ IsFiniteSet(Debts(s))
      /\ Cardinality(Debts(s)) = Cardinality(E) + Cardinality(DebtsOf(s, r)) - 0
      /\ Cardinality(Debts(q)) = Cardinality(E) + Cardinality(DebtsOf(q, r)) - 0
  BY <1>4, <1>5, <1>7
<1> QED BY <1>3, <1>5, <1>8

\* A reply is owed from the call on until it begins: it is asked for by a task that waits
\* or runs and has not posted it, or it waits itself.
Debtors == {t \in Threads : /\ run[t] # Nothing /\ run[t].task \in OwingWorks
                            /\ \/ run[t].task.kind = "task" /\ run[t].at # "drop"
                               \/ run[t].at = "begin"}
Owed ==
    /\ IsFiniteSet(Debts(fifo)) /\ IsFiniteSet(Debtors)
    /\ owed = Cardinality(Debts(fifo)) + Cardinality(Debtors) /\ owed <= calls

LEMMA DebtsPosted ==
    ASSUME Shape, Owed, NEW r \in Runners, NEW w \in Works, fifo' = Posted(r, w)
    PROVE  /\ IsFiniteSet(Debts(fifo'))
           /\ Cardinality(Debts(fifo'))
                = Cardinality(Debts(fifo)) + (IF w \in OwingWorks THEN 1 ELSE 0)
<1>0. RunnerShape /\ fifo \in [Runners -> Seq(Works)] /\ fifo[r] \in Seq(Works)
  BY DEF Shape, RunnerShape
<1>1. /\ fifo' \in [Runners -> Seq(Works)] /\ fifo'[r] = Append(fifo[r], w)
      /\ \A u \in Runners \ {r} : fifo'[u] = fifo[u]
  BY <1>0, PostedFacts
<1>2. /\ IsFiniteSet(Debts(fifo'))
      /\ \E m \in Nat : /\ Cardinality(Debts(fifo)) = m + CountIn(fifo[r], OwingWorks)
                        /\ Cardinality(Debts(fifo')) = m + CountIn(fifo'[r], OwingWorks)
  BY <1>0, <1>1, DebtsChange DEF Owed
<1>3. CountIn(fifo'[r], OwingWorks)
        = CountIn(fifo[r], OwingWorks) + (IF w \in OwingWorks THEN 1 ELSE 0)
  BY <1>0, <1>1, CountAppend
<1>4. CountIn(fifo[r], OwingWorks) \in Nat
  BY <1>0, PlacesFinite
<1> QED BY <1>2, <1>3, <1>4

LEMMA DebtsTaken ==
    ASSUME Shape, Owed, NEW t \in Threads, NEW r \in Runners, Takes(t, r), Shape'
    PROVE  /\ IsFiniteSet(Debts(fifo'))
           /\ Cardinality(Debts(fifo))
                = Cardinality(Debts(fifo')) + (IF Head(fifo[r]) \in OwingWorks THEN 1 ELSE 0)
           /\ Cardinality(Debts(fifo')) \in Nat
<1>0. /\ RunnerShape /\ fifo \in [Runners -> Seq(Works)] /\ fifo[r] \in Seq(Works)
      /\ fifo[r] # <<>>
  BY DEF Shape, RunnerShape, Takes
<1>1. Tail(fifo[r]) \in Seq(Works)
  BY <1>0, HeadTailProperties
<1>2. /\ fifo'[r] = Tail(fifo[r]) /\ \A u \in Runners \ {r} : fifo'[u] = fifo[u]
  BY DEF Takes
<1>3. fifo' \in [Runners -> Seq(Works)]
  BY DEF Shape, RunnerShape
<1>4. /\ IsFiniteSet(Debts(fifo'))
      /\ \E m \in Nat : /\ Cardinality(Debts(fifo)) = m + CountIn(fifo[r], OwingWorks)
                        /\ Cardinality(Debts(fifo')) = m + CountIn(fifo'[r], OwingWorks)
  BY <1>0, <1>2, <1>3, DebtsChange DEF Owed
<1>5. CountIn(fifo[r], OwingWorks)
        = CountIn(fifo'[r], OwingWorks) + (IF Head(fifo[r]) \in OwingWorks THEN 1 ELSE 0)
  BY <1>0, <1>2, CountTail
<1>6. CountIn(fifo'[r], OwingWorks) \in Nat
  BY <1>1, <1>2, PlacesFinite
<1> QED BY <1>4, <1>5, <1>6

LEMMA OwedNat ==
    ASSUME Owed
    PROVE  /\ owed \in Nat /\ Cardinality(Debts(fifo)) \in Nat /\ Cardinality(Debtors) \in Nat
BY FS_CardinalityType DEF Owed

\* The steps of others ask for no reply and begin none.
LEMMA OwedWithin ==
    ASSUME Shape, Owed, NEW G, G \cap {"task", "reply"} = {}, Within(G), MoreCalls,
           UNCHANGED owed
    PROVE  Owed'
<1>1. Debtors' = Debtors
  <2>1. \A w \in OwingWorks : w.kind \notin G
    BY DEF OwingWorks
  <2> QED BY <2>1 DEF Within, Goes, Debtors
<1>2. IsFiniteSet(Debts(fifo')) /\ Cardinality(Debts(fifo')) = Cardinality(Debts(fifo))
  <2>1. CASE fifo' = fifo
    BY <2>1 DEF Owed
  <2>2. ASSUME NEW r \in Runners, NEW w \in Works, w.kind \in G, fifo' = Posted(r, w)
        PROVE  IsFiniteSet(Debts(fifo')) /\ Cardinality(Debts(fifo')) = Cardinality(Debts(fifo))
    <3>1. w \notin OwingWorks
      BY <2>2 DEF OwingWorks
    <3> QED BY <2>2, <3>1, DebtsPosted, OwedNat
  <2> QED BY <2>1, <2>2 DEF Within, Posts
<1>3. owed <= calls'
  BY OwedNat DEF Owed, MoreCalls, Shape, RunnerShape, Ids
<1> QED BY <1>1, <1>2, <1>3 DEF Owed

LEMMA PostTaskOwed ==
    ASSUME Shape, Owed, NEW c \in Callers, NEW r \in Runners, PostTaskAndReply(c, r)
    PROVE  Owed'
<1>1. default[c] \in Runners \cup {None} /\ UNCHANGED run /\ calls' = calls + 1 /\ calls \in Nat
  BY DEF Shape, RunnerShape, PostTaskAndReply, Ids
<1>2. PICK w \in Works : /\ fifo' = Posted(r, w) /\ w.kind = "task" /\ w.id = default[c]
  BY <1>1, TaskWork DEF PostTaskAndReply
<1>3. w \in OwingWorks <=> default[c] # None
  BY <1>2 DEF OwingWorks
<1>4. owed' = owed + (IF w \in OwingWorks THEN 1 ELSE 0)
  BY <1>3, OwedNat DEF PostTaskAndReply
<1>5. Debtors' = Debtors
  BY <1>1 DEF Debtors
<1> QED BY <1>1, <1>2, <1>4, <1>5, DebtsPosted, OwedNat DEF Owed

LEMMA BeginTaskOwed ==
    ASSUME Shape, Owed, NEW t \in Threads, BeginTask(t)
    PROVE  Owed'
<1>1. /\ run[t] # Nothing /\ run[t].at = "begin" /\ run[t].task.kind \in {"task", "reply"}
      /\ run[t].task \in Works /\ Moved(t, "user", run[t].locals) /\ UNCHANGED <<fifo, calls>>
  BY MoveToFacts DEF Shape, RunnerShape, Runs, BeginTask, Is, Points
<1>2. CASE run[t].task.kind = "task"
  <2>1. Debtors' = Debtors
    BY <1>1, <1>2 DEF Moved, Others, Debtors
  <2>2. owed' = owed
    BY <1>2 DEF BeginTask
  <2> QED BY <1>1, <2>1, <2>2 DEF Owed
<1>3. CASE run[t].task.kind = "reply"
  <2>1. Debtors' = Debtors \ {t} /\ t \in Debtors
    BY <1>1, <1>3 DEF Moved, Others, Debtors, OwingWorks
  <2>2. owed' = owed - 1
    BY <1>3 DEF BeginTask
  <2>3. IsFiniteSet(Debtors') /\ Cardinality(Debtors') = Cardinality(Debtors) - 1
    BY <2>1, FS_RemoveElement DEF Owed
  <2>4. calls \in Nat
    BY DEF Shape, RunnerShape, Ids
  <2> QED BY <1>1, <2>2, <2>3, <2>4, OwedNat DEF Owed
<1> QED BY <1>1, <1>2, <1>3

LEMMA PostReplyOwed ==
    ASSUME Shape, Owed, NEW t \in Threads, PostReply(t)
    PROVE  Owed'
<1>1. /\ run[t] # Nothing /\ run[t].at = "user" /\ run[t].task.kind = "task"
      /\ run[t].task \in Works /\ run[t].task.id # None
      /\ Moved(t, "drop", run[t].locals) /\ UNCHANGED <<owed, calls>>
  BY MoveToFacts DEF Shape, RunnerShape, Runs, PostReply, Is, Points, callVars
<1>2. run[t].task.id \in Runners
  BY <1>1, WorkTypes
<1>3. Debtors' = Debtors \ {t} /\ t \in Debtors
  BY <1>1 DEF Moved, Others, Debtors, OwingWorks
<1>4. PICK w \in Works : fifo' = Posted(run[t].task.id, w) /\ w.kind = "reply"
  BY <1>2, TaskWork DEF PostReply
<1>5. w \in OwingWorks
  BY <1>4 DEF OwingWorks
<1>6. /\ IsFiniteSet(Debts(fifo'))
      /\ Cardinality(Debts(fifo')) = Cardinality(Debts(fifo)) + 1
  BY <1>2, <1>4, <1>5, DebtsPosted
<1>7. IsFiniteSet(Debtors') /\ Cardinality(Debtors') = Cardinality(Debtors) - 1
  BY <1>3, FS_RemoveElement DEF Owed
<1> QED BY <1>1, <1>6, <1>7, OwedNat DEF Owed

LEMMA EndTaskOwed ==
    ASSUME Shape, Owed, NEW t \in Threads, EndTask(t)
    PROVE  Owed'
<1>1. /\ Ended(t) /\ UNCHANGED <<owed, calls, fifo>>
      /\ \/ run[t].task.kind = "task" /\ run[t].at = "drop"
         \/ run[t].task.kind = "reply" /\ run[t].at = "user"
         \/ run[t].task.kind = "task" /\ run[t].task.id = None
  BY EndedFacts DEF Shape, EndTask, Is, callVars
<1>2. t \notin Debtors
  BY <1>1 DEF Debtors, OwingWorks
<1>3. Debtors' = Debtors
  BY <1>1, <1>2 DEF Ended, Others, Debtors
<1> QED BY <1>1, <1>3 DEF Owed

LEMMA TakeOwed ==
    ASSUME Shape, Placed, Owed, NEW r \in Runners, Take(r)
    PROVE  Owed'
<1>1. PICK t \in Threads : Takes(t, r)
  BY TakeFacts
<1>2. Shape' /\ UNCHANGED <<owed, calls>>
  BY TakeShape DEF Take, StartNext, Start, callVars
<1> DEFINE h == Head(fifo[r])
<1>3. /\ run[t] = Nothing /\ run'[t] # Nothing /\ run'[t].task = h /\ run'[t].at = "begin"
      /\ Others(t)
  BY <1>1 DEF Takes
<1>4. /\ IsFiniteSet(Debts(fifo')) /\ Cardinality(Debts(fifo')) \in Nat
      /\ Cardinality(Debts(fifo))
           = Cardinality(Debts(fifo')) + (IF h \in OwingWorks THEN 1 ELSE 0)
  BY <1>1, <1>2, DebtsTaken
<1> HIDE DEF h
<1>5. t \notin Debtors /\ Debtors' = IF h \in OwingWorks THEN Debtors \cup {t} ELSE Debtors
  BY <1>3 DEF Debtors, Others
<1>6. /\ IsFiniteSet(Debtors')
      /\ Cardinality(Debtors') = Cardinality(Debtors) + (IF h \in OwingWorks THEN 1 ELSE 0)
  <2>1. CASE h \in OwingWorks
    BY <1>5, <2>1, FS_AddElement DEF Owed
  <2>2. CASE h \notin OwingWorks
    BY <1>5, <2>2, OwedNat DEF Owed
  <2> QED BY <2>1, <2>2
<1> QED BY <1>2, <1>4, <1>6, OwedNat DEF Owed

LEMMA InitOwed == Init => Owed
<1> SUFFICES ASSUME Init PROVE Owed
  OBVIOUS
<1>1. /\ \A r \in Runners : fifo[r] = <<>>
      /\ \A t \in Threads : run[t] = Nothing
      /\ owed = 0 /\ calls = 0
  BY DEF Init, RunnersInit
<1>2. Debts(fifo) = {} /\ Debtors = {}
  <2>1. DOMAIN <<>> = {}
    OBVIOUS
  <2>2. \A p \in Runners \X Nat : DOMAIN fifo[p[1]] = {}
    BY <1>1, <2>1
  <2>3. ASSUME NEW p \in Debts(fifo)
        PROVE  FALSE
    <3>1. p \in Runners \X Nat /\ p[2] \in DOMAIN fifo[p[1]]
      BY DEF Debts
    <3> QED BY <2>2, <3>1
  <2>4. Debtors = {}
    BY <1>1 DEF Debtors
  <2> QED BY <2>3, <2>4
<1> QED BY <1>1, <1>2, FS_EmptySet DEF Owed

LEMMA OwedKept == Shape /\ Placed /\ Owed /\ [Next]_vars => Owed'
<1> SUFFICES ASSUME Shape, Placed, Owed, [Next]_vars PROVE Owed'
  OBVIOUS
<1>1. /\ {"tick"} \cap {"task", "reply"} = {}
      /\ (BusKinds \cup {"flush"}) \cap {"task", "reply"} = {}
      /\ (FileKinds \cup {"done"}) \cap {"task", "reply"} = {}
  BY DEF FileKinds, Whole, Changes, BusKinds
<1>2. ASSUME NEW c \in Callers, ClientCall(c) \/ CallStep(c)
      PROVE  Owed'
  <2>1. CASE \E r \in Runners : PostTaskAndReply(c, r)
    BY <2>1, PostTaskOwed
  <2>2. CASE TimerCall(c) \/ BusCall(c) \/ FileCall(c) \/ CallStep(c)
    <3>1. MoreCalls /\ UNCHANGED owed
      BY <2>2, CallsCounted, SameCalls
         DEF TimerCall, TimerStart, TimerStop, DropHandler, BusCall, Subscribe, Unsubscribe,
             Publish, Flush, DropBus, FileCall, CallStep, TimerStep, StartSchedules,
             StartReturns, SubscribePosts, Calls
    <3>2. Within({"tick"}) \/ Within(BusKinds \cup {"flush"}) \/ Within(FileKinds \cup {"done"})
      BY <2>2, TimerWithin, BusWithin, FileWithin DEF CallStep
    <3> QED BY <1>1, <3>1, <3>2, OwedWithin
  <2> QED BY <1>2, <2>1, <2>2 DEF ClientCall
<1>3. ASSUME NEW t \in Threads, TaskStep(t)
      PROVE  Owed'
  <2>1. CASE BeginTask(t) \/ PostReply(t) \/ EndTask(t)
    BY <2>1, BeginTaskOwed, PostReplyOwed, EndTaskOwed
  <2>2. CASE TickStep(t) \/ BusTask(t) \/ FileTask(t)
    <3>1. MoreCalls /\ UNCHANGED owed
      BY <2>2, SameCalls
         DEF TickStep, TickBegin, TickSchedules, TickCalls, TickReturns, BusTask, BusUpdate,
             BusDispatch, Deliver, CallbackReturns, Delivered, FlushDone, DoneReturns,
             FileTask, FileOpen, Transfer, FileClose, FileWhole, FileReply, FileCallback,
             FileCallbackReturns, callVars
    <3>2. Within({"tick"}) \/ Within(BusKinds \cup {"flush"}) \/ Within(FileKinds \cup {"done"})
      BY <1>3, <2>2, TimerWithin, BusWithin, FileWithin
    <3> QED BY <1>1, <3>1, <3>2, OwedWithin
  <2> QED BY <1>3, <2>1, <2>2 DEF TaskStep
<1>4. ASSUME NEW r \in Runners, NEW w \in Range(later[r]), Deadline(r, w)
      PROVE  Owed'
  <2>1. MoreCalls /\ UNCHANGED owed /\ Within({"tick"})
    BY <1>4, SameCalls, TimerWithin DEF Deadline, Expire, callVars
  <2> QED BY <1>1, <2>1, OwedWithin
<1>5. CASE UNCHANGED vars
  BY <1>5 DEF vars, runnerVars, callVars, Owed, Debtors
<1> QED BY <1>2, <1>3, <1>4, <1>5, TakeOwed DEF Next
\* A flush is owed its callback from the call on until the callback begins.
FlushWorks == {w \in Works : w.kind = "flush"}
Flushing == {t \in Threads : run[t] # Nothing /\ run[t].task.kind = "flush" /\ run[t].at = "begin"}
FlushesWaiting == CountIn(fifo[BusRunner], FlushWorks)
Unflushed == unflushed = FlushesWaiting + One(Flushing) /\ unflushed <= calls

LEMMA UnflushedNat ==
    ASSUME Shape
    PROVE  /\ FlushesWaiting \in Nat /\ One(Flushing) \in {0, 1}
           /\ Unflushed => unflushed \in Nat
           /\ BusRunner \in Runners /\ fifo[BusRunner] \in Seq(Works) /\ RunnerShape
<1>1. BusRunner \in Runners /\ fifo[BusRunner] \in Seq(Works)
  BY ClientsAssumption DEF Runners, Shape, RunnerShape
<1>2. FlushesWaiting \in Nat /\ One(Flushing) \in {0, 1}
  BY <1>1, PlacesFinite DEF FlushesWaiting, One
<1> QED BY <1>1, <1>2 DEF Unflushed, Shape

LEMMA FlushesPosted ==
    ASSUME Shape, NEW r \in Runners, NEW w \in Works, fifo' = Posted(r, w)
    PROVE  FlushesWaiting' = FlushesWaiting
                             + (IF w.kind = "flush" /\ r = BusRunner THEN 1 ELSE 0)
<1>0. RunnerShape /\ fifo[BusRunner] \in Seq(Works) /\ FlushesWaiting \in Nat
  BY UnflushedNat
<1>1. fifo'[BusRunner] = IF r = BusRunner THEN Append(fifo[BusRunner], w) ELSE fifo[BusRunner]
  BY <1>0, UnflushedNat, PostedFacts
<1>2. CountIn(Append(fifo[BusRunner], w), FlushWorks)
        = CountIn(fifo[BusRunner], FlushWorks) + (IF w \in FlushWorks THEN 1 ELSE 0)
  BY <1>0, CountAppend
<1>3. w \in FlushWorks <=> w.kind = "flush"
  BY DEF FlushWorks
<1> QED BY <1>0, <1>1, <1>2, <1>3 DEF FlushesWaiting

\* Steps that post no flush, and begin none.
LEMMA UnflushedSame ==
    ASSUME Shape, Unflushed, Flushing' = Flushing, MoreCalls, UNCHANGED unflushed,
           \/ fifo' = fifo
           \/ \E r \in Runners, w \in Works : w.kind # "flush" /\ fifo' = Posted(r, w)
    PROVE  Unflushed'
<1>1. FlushesWaiting' = FlushesWaiting
  <2>1. CASE fifo' = fifo
    BY <2>1 DEF FlushesWaiting
  <2>2. CASE \E r \in Runners, w \in Works : w.kind # "flush" /\ fifo' = Posted(r, w)
    BY <2>2, FlushesPosted, UnflushedNat
  <2> QED BY <2>1, <2>2
<1>2. unflushed <= calls'
  BY UnflushedNat DEF Unflushed, MoreCalls, Shape, RunnerShape, Ids
<1> QED BY <1>1, <1>2 DEF Unflushed

LEMMA UnflushedWithin ==
    ASSUME Shape, Unflushed, NEW G, "flush" \notin G, Within(G), MoreCalls,
           UNCHANGED busVars
    PROVE  Unflushed'
<1>1. Flushing' = Flushing
  BY DEF Within, Goes, Flushing
<1> QED BY <1>1, UnflushedSame DEF Within, Posts, busVars

LEMMA BusCallUnflushed ==
    ASSUME Shape, Placed, Unflushed, NEW c \in Callers, BusCall(c) \/ SubscribePosts(c)
    PROVE  Unflushed'
<1>1. MoreCalls /\ Flushing' = Flushing /\ BusRunner \in Runners
  BY CallsCounted, SameCalls, UnflushedNat
     DEF BusCall, Subscribe, Unsubscribe, Publish, Flush, DropBus, SubscribePosts, Calls, Flushing
<1>2. CASE Flush(c)
  <2>1. Len(expected) \in Nat
    BY LenProperties DEF Shape, BusShape
  <2>2. PICK w \in Works : w.kind = "flush" /\ fifo' = Posted(BusRunner, w)
    BY <1>2, <2>1, FlushWork DEF Flush
  <2>3. FlushesWaiting' = FlushesWaiting + 1
    BY <1>1, <2>2, FlushesPosted
  <2>4. unflushed' = unflushed + 1 /\ calls' = calls + 1 /\ calls \in Nat
    BY <1>2 DEF Flush, Calls, Shape, RunnerShape, Ids
  <2> QED BY <1>1, <2>3, <2>4, UnflushedNat DEF Unflushed
<1>3. CASE Subscribe(c) \/ DropBus(c)
  BY <1>1, <1>3, UnflushedSame DEF Subscribe, DropBus
<1>4. CASE Unsubscribe(c) \/ Publish(c) \/ SubscribePosts(c)
  <2>1. UNCHANGED unflushed
    BY <1>4 DEF Unsubscribe, Publish, SubscribePosts
  <2>2. \E k \in BusKinds, i \in Ids : fifo' = Posted(BusRunner, Work(k, i))
    <3>1. CASE Unsubscribe(c)
      BY <3>1, RangeOfIds DEF Unsubscribe, Shape, BusShape, BusKinds
    <3>2. CASE Publish(c)
      <4>1. published + 1 \in Ids
        BY <3>2, RunnersAssumption DEF Publish, Shape, BusShape, MayCall, RunnerShape, Ids
      <4> QED BY <3>2, <4>1 DEF Publish, BusKinds
    <3>3. CASE SubscribePosts(c)
      BY <3>3 DEF SubscribePosts, Shape, RunnerShape, CallsInProgress, BusKinds
    <3> QED BY <1>4, <3>1, <3>2, <3>3
  <2>3. PICK w \in Works : w.kind \in BusKinds /\ fifo' = Posted(BusRunner, w)
    BY <2>2, BusWork
  <2>4. w.kind # "flush"
    BY <2>3 DEF BusKinds
  <2> QED BY <1>1, <2>1, <2>3, <2>4, UnflushedSame
<1> QED BY <1>2, <1>3, <1>4 DEF BusCall

LEMMA BusTaskUnflushed ==
    ASSUME Shape, Placed, Unflushed, NEW t \in Threads, TaskStep(t), BusTask(t)
    PROVE  Unflushed'
<1>1. /\ MoreCalls /\ UNCHANGED <<fifo, calls>> /\ run[t] # Nothing
      /\ calls \in Nat
  BY SameCalls DEF BusTask, BusUpdate, BusDispatch, Deliver, CallbackReturns, Delivered,
     FlushDone, DoneReturns, callVars, Is, Shape, RunnerShape, Ids
<1>2. CASE FlushDone(t)
  <2>1. Moved(t, "user", run[t].locals)
    BY <1>1, <1>2, MoveToFacts DEF FlushDone, Shape, Points
  <2>2. t \in Flushing /\ \A u \in Flushing : u = t
    BY <1>2 DEF FlushDone, Is, Flushing, Placed, Home
  <2>3. Flushing' = {}
    BY <2>1, <2>2 DEF Moved, Others, Flushing
  <2>4. One(Flushing) = 1 /\ One(Flushing') = 0 /\ unflushed' = unflushed - 1
    BY <1>2, <2>2, <2>3 DEF One, FlushDone
  <2>5. FlushesWaiting' = FlushesWaiting
    BY <1>1 DEF FlushesWaiting
  <2> QED BY <1>1, <2>4, <2>5, UnflushedNat DEF Unflushed
<1>3. CASE ~FlushDone(t)
  <2>1. UNCHANGED unflushed
    BY <1>3 DEF BusTask, BusUpdate, BusDispatch, Deliver, CallbackReturns, Delivered,
       DoneReturns, busVars
  <2>2. run[t].task.kind \in BusKinds \/ run[t].at = "user"
    BY <1>3 DEF BusTask, BusUpdate, BusDispatch, Deliver, CallbackReturns, Delivered,
       DoneReturns, Is, BusKinds
  <2>3. t \notin Flushing
    BY <2>2 DEF Flushing, BusKinds
  <2>4. Moved(t, "deliver", run[t].locals) \/ ThreadMoves(t) \/ Ended(t)
    BY TaskMoves
  <2>5. t \notin Flushing'
    <3>1. CASE run[t].task.kind \in BusKinds
      BY <2>4, <3>1 DEF Moved, ThreadMoves, Ended, Flushing, BusKinds
    <3>2. CASE run[t].task.kind \notin BusKinds
      <4>1. DoneReturns(t)
        BY <1>3, <3>2 DEF BusTask, BusUpdate, BusDispatch, Deliver, CallbackReturns,
           Delivered, Is, BusKinds
      <4>2. Ended(t)
        BY <4>1, EndedFacts DEF DoneReturns, Shape
      <4> QED BY <4>2 DEF Ended, Flushing
    <3> QED BY <3>1, <3>2
  <2>6. \A u \in Threads \ {t} : run'[u] = run[u]
    BY <2>4 DEF Moved, ThreadMoves, Ended, Others
  <2>7. Flushing' = Flushing
    BY <2>3, <2>5, <2>6 DEF Flushing
  <2> QED BY <1>1, <2>1, <2>7, UnflushedSame
<1> QED BY <1>2, <1>3

LEMMA TakeUnflushed ==
    ASSUME Shape, Placed, Unflushed, NEW r \in Runners, Take(r)
    PROVE  Unflushed'
<1>0. BusRunner \in Runners /\ fifo[BusRunner] \in Seq(Works)
  BY UnflushedNat
<1>1. PICK t \in Threads : Takes(t, r)
  BY TakeFacts
<1>2. UNCHANGED <<unflushed, calls>>
  BY DEF Take, StartNext, Start, callVars, busVars
<1> DEFINE h == Head(fifo[r])
<1>3. /\ run[t] = Nothing /\ run'[t] # Nothing /\ run'[t].task = h /\ run'[t].at = "begin"
      /\ Others(t) /\ Home(h, r) /\ h \in Works
      /\ r = BusRunner => fifo[BusRunner] # <<>> /\ fifo'[BusRunner] = Tail(fifo[BusRunner])
      /\ r # BusRunner => fifo'[BusRunner] = fifo[BusRunner]
      /\ \A u \in Threads : run[u] # Nothing => run[u].runner # r
  BY <1>0, <1>1 DEF Takes
<1>4. r = BusRunner => /\ CountIn(fifo[BusRunner], FlushWorks)
                            = CountIn(fifo'[BusRunner], FlushWorks)
                              + (IF h \in FlushWorks THEN 1 ELSE 0)
                       /\ CountIn(fifo'[BusRunner], FlushWorks) \in Nat
  <2>1. ASSUME r = BusRunner PROVE Tail(fifo[BusRunner]) \in Seq(Works)
    BY <1>0, <1>3, <2>1, HeadTailProperties
  <2> QED BY <1>0, <1>3, <2>1, CountTail, PlacesFinite
<1> HIDE DEF h
<1>5. h \in FlushWorks <=> h.kind = "flush"
  BY <1>3 DEF FlushWorks
<1>6. CASE h.kind = "flush"
  <2>1. r = BusRunner
    BY <1>3, <1>6 DEF Home
  <2>2. Flushing = {}
    BY <1>3, <2>1 DEF Flushing, Placed, Home
  <2>3. Flushing' = {t}
    BY <1>3, <1>6, <2>2 DEF Others, Flushing
  <2>4. One(Flushing) = 0 /\ One(Flushing') = 1
    BY <2>2, <2>3 DEF One
  <2>5. FlushesWaiting = FlushesWaiting' + 1 /\ FlushesWaiting' \in Nat
    BY <1>4, <1>5, <1>6, <2>1 DEF FlushesWaiting
  <2> QED BY <1>2, <2>4, <2>5 DEF Unflushed
<1>7. CASE h.kind # "flush"
  <2>1. Flushing' = Flushing
    BY <1>3, <1>7 DEF Others, Flushing
  <2>2. FlushesWaiting' = FlushesWaiting
    BY <1>3, <1>4, <1>5, <1>7 DEF FlushesWaiting
  <2> QED BY <1>2, <2>1, <2>2 DEF Unflushed
<1> QED BY <1>6, <1>7

LEMMA InitUnflushed == Init => Unflushed
<1> SUFFICES ASSUME Init PROVE Unflushed
  OBVIOUS
<1>1. /\ fifo[BusRunner] = <<>> /\ \A t \in Threads : run[t] = Nothing
      /\ unflushed = 0 /\ calls = 0
  BY ClientsAssumption DEF Init, RunnersInit, BusInit, Runners
<1>2. Places(<<>>, FlushWorks) = {} /\ Flushing = {}
  BY <1>1 DEF Places, Flushing
<1> QED BY <1>1, <1>2, FS_EmptySet DEF Unflushed, FlushesWaiting, CountIn, One

LEMMA UnflushedKept == Shape /\ Placed /\ Unflushed /\ [Next]_vars => Unflushed'
<1> SUFFICES ASSUME Shape, Placed, Unflushed, [Next]_vars PROVE Unflushed'
  OBVIOUS
<1>1. /\ "flush" \notin {"tick"} /\ "flush" \notin {"task", "reply"}
      /\ "flush" \notin FileKinds \cup {"done"}
  BY DEF FileKinds, Whole, Changes
<1>2. ASSUME NEW c \in Callers, ClientCall(c) \/ CallStep(c)
      PROVE  Unflushed'
  <2>1. CASE BusCall(c) \/ SubscribePosts(c)
    BY <2>1, BusCallUnflushed
  <2>2. CASE ~(BusCall(c) \/ SubscribePosts(c))
    <3>1. MoreCalls /\ UNCHANGED busVars
      BY <1>2, <2>2, CallsCounted, SameCalls
         DEF ClientCall, TimerCall, TimerStart, TimerStop, DropHandler, FileCall, CallStep,
             TimerStep, StartSchedules, StartReturns, PostTaskAndReply, Calls
    <3>2. Within({"tick"}) \/ Within({"task", "reply"}) \/ Within(FileKinds \cup {"done"})
      BY <1>2, <2>2, TimerWithin, ReplyWithin, FileWithin DEF ClientCall, CallStep
    <3> QED BY <1>1, <3>1, <3>2, UnflushedWithin
  <2> QED BY <2>1, <2>2
<1>3. ASSUME NEW t \in Threads, TaskStep(t)
      PROVE  Unflushed'
  <2>1. CASE BusTask(t)
    BY <1>3, <2>1, BusTaskUnflushed
  <2>2. CASE ~BusTask(t)
    <3>1. MoreCalls /\ UNCHANGED busVars
      BY <1>3, <2>2, SameCalls
         DEF TaskStep, BeginTask, PostReply, EndTask, TickStep, TickBegin, TickSchedules, TickCalls,
             TickReturns, FileTask, FileOpen, Transfer, FileClose, FileWhole, FileReply,
             FileCallback, FileCallbackReturns, callVars
    <3>2. Within({"tick"}) \/ Within({"task", "reply"}) \/ Within(FileKinds \cup {"done"})
      BY <1>3, <2>2, TimerWithin, ReplyWithin, FileWithin DEF TaskStep
    <3> QED BY <1>1, <3>1, <3>2, UnflushedWithin
  <2> QED BY <2>1, <2>2
<1>4. ASSUME NEW r \in Runners, NEW w \in Range(later[r]), Deadline(r, w)
      PROVE  Unflushed'
  <2>1. MoreCalls /\ UNCHANGED busVars /\ Within({"tick"})
    BY <1>4, SameCalls, TimerWithin DEF Deadline, Expire, callVars
  <2> QED BY <1>1, <2>1, UnflushedWithin
<1>5. CASE UNCHANGED vars
  BY <1>5 DEF vars, runnerVars, callVars, busVars, Unflushed, Flushing, FlushesWaiting
<1> QED BY <1>2, <1>3, <1>4, <1>5, TakeUnflushed DEF Next

\* TypeOK holds. The counts of the replies and of the flushes that are owed never fall
\* below 0, as each is the number of tasks that wait or run and have still to give one.
THEOREM TypeCorrect == Spec => []TypeOK
<1>1. Shape /\ Timely /\ Owed /\ Unflushed => TypeOK
  <2> SUFFICES ASSUME Shape, Timely, Owed, Unflushed PROVE TypeOK
    OBVIOUS
  <2>1. calls \in 0 .. MaxCalls /\ owed \in Ids /\ unflushed \in Ids
    BY OwedNat, UnflushedNat, RunnersAssumption DEF Shape, RunnerShape, Owed, Unflushed, Ids
  <2>2. /\ active \in Ids /\ inners \in Ids /\ stoppedIn \subseteq Ids
        /\ nextId \in Ids /\ published \in Ids /\ asked \in Ids
    BY <2>1, RunnersAssumption DEF Shape, TimerShape, BusShape, FileShape, Ids
  <2>3. late \in [1 .. MaxCalls -> Ids]
    <3>1. \A i \in 1 .. MaxCalls : late[i] \in {0, 1} /\ {0, 1} \subseteq Ids
      BY RunnersAssumption DEF Timely, Lateness, Ids
    <3> QED BY <3>1 DEF Shape, TimerShape
  <2> QED BY <2>1, <2>2, <2>3 DEF TypeOK, Shape, RunnerShape, TimerShape, BusShape, FileShape
<1> QED BY <1>1, ShapeInvariant, PlacedInvariant, TimelyInvariant, InitOwed, OwedKept,
           InitUnflushed, UnflushedKept, PTL DEF Spec
-----------------------------------------------------------------------------
(* The event bus *)

Called == Seq(Ids \X Ids)
Begins(g, h) == \E u \in Called : h = g \o u

LEMMA BeginsFacts ==
    ASSUME NEW g \in Called
    PROVE  /\ Begins(g, g)
           /\ \A u \in Called : Begins(g, g \o u) /\ g \o u \in Called
           /\ \A h \in Called, i \in Called : Begins(g, h) /\ Begins(h, i) => Begins(g, i)
<1>1. Begins(g, g)
  <2>1. <<>> \in Called /\ g \o <<>> = g
    BY EmptySeq, ConcatEmptySeq DEF Called
  <2> QED BY <2>1 DEF Begins
<1>2. \A u \in Called : Begins(g, g \o u) /\ g \o u \in Called
  BY ConcatProperties DEF Begins, Called
<1>3. ASSUME NEW h \in Called, NEW i \in Called, Begins(g, h), Begins(h, i)
      PROVE  Begins(g, i)
  <2>1. PICK u \in Called, v \in Called : h = g \o u /\ i = h \o v
    BY <1>3 DEF Begins
  <2>2. (g \o u) \o v = g \o (u \o v) /\ u \o v \in Called
    BY ConcatAssociative, ConcatProperties DEF Called
  <2> QED BY <2>1, <2>2 DEF Begins
<1> QED BY <1>1, <1>2, <1>3

LEMMA BeginsPrefix ==
    ASSUME NEW g \in Called, NEW h \in Called, Begins(g, h)
    PROVE  IsPrefix(g, h) /\ Len(g) <= Len(h)
<1>1. PICK u \in Called : h = g \o u
  BY DEF Begins
<1>2. PICK m \in Nat, n \in Nat : m = Len(g) /\ n = Len(u)
  BY LenProperties DEF Called
<1>3. Len(h) = m + n /\ \A i \in 1 .. m + n : h[i] = IF i <= m THEN g[i] ELSE u[i - m]
  BY <1>1, <1>2, ConcatProperties DEF Called
<1>4. \A i \in 1 .. m : g[i] \in Ids \X Ids /\ h[i] = g[i]
  <2>1. \A i \in 1 .. m : i \in 1 .. m + n /\ i <= m
    OBVIOUS
  <2>2. \A i \in 1 .. m : h[i] = g[i]
    BY <1>3, <2>1
  <2> QED BY <1>2, <2>2, ElementOfSeq DEF Called
<1> DEFINE a == SubSeq(g, 1, m)
           b == SubSeq(h, 1, m)
<1>5. /\ a \in Called /\ Len(a) = IF 1 <= m THEN m - 1 + 1 ELSE 0
      /\ \A i \in 1 .. m - 1 + 1 : a[i] = g[1 + i - 1]
  BY <1>4, SubSeqProperties DEF Called
<1>6. /\ b \in Called /\ Len(b) = IF 1 <= m THEN m - 1 + 1 ELSE 0
      /\ \A i \in 1 .. m - 1 + 1 : b[i] = h[1 + i - 1]
  <2>1. \A i \in 1 .. m : h[i] \in Ids \X Ids
    BY <1>4
  <2> QED BY <2>1, SubSeqProperties DEF Called
<1> HIDE DEF a, b
<1>7. \A i \in 1 .. m : i \in 1 .. m - 1 + 1 /\ 1 + i - 1 = i
  OBVIOUS
<1>8. (IF 1 <= m THEN m - 1 + 1 ELSE 0) = m
  OBVIOUS
<1>9. Len(a) = m /\ Len(b) = m /\ \A i \in 1 .. m : a[i] = b[i]
  BY <1>4, <1>5, <1>6, <1>7, <1>8
<1>10. a = b
  BY <1>5, <1>6, <1>9, SeqEqual DEF Called
<1>11. m <= m + n
  OBVIOUS
<1> QED BY <1>2, <1>3, <1>10, <1>11 DEF IsPrefix, a, b

\* What an operation does when its task runs: s are the subscribers and g the callbacks
\* that were called before it, s2 and g2 those after it.
Effect(w, s, g, s2, g2) ==
    /\ w.kind = "subscribe" => s2 = Append(s, w.id) /\ g2 = g
    /\ w.kind = "unsubscribe" => s2 = Without(s, w.id) /\ g2 = g
    /\ w.kind = "publish" => s2 = s /\ g2 = g \o Deliveries(s, w.id)
    /\ w.kind = "flush" => w.id = Len(g)
    /\ w.kind \notin BusKinds => s2 = s /\ g2 = g

LEMMA EffectFacts ==
    ASSUME NEW w \in Works, NEW s \in Seq(Ids), NEW g \in Called, NEW s2, NEW g2,
           Effect(w, s, g, s2, g2)
    PROVE  s2 \in Seq(Ids) /\ g2 \in Called /\ Begins(g, g2)
<1>1. CASE w.kind = "subscribe"
  <2>1. w.id \in Ids
    BY <1>1, WorkTypes DEF BusKinds
  <2> QED BY <1>1, <2>1, AppendProperties, BeginsFacts DEF Effect
<1>2. CASE w.kind = "unsubscribe"
  BY <1>2, WithoutFacts, BeginsFacts DEF Effect
<1>3. CASE w.kind = "publish"
  <2>1. w.id \in Ids
    BY <1>3, WorkTypes DEF BusKinds
  <2>2. Deliveries(s, w.id) \in Called
    BY <2>1, DeliveriesFacts DEF Called
  <2> QED BY <1>3, <2>2, BeginsFacts DEF Effect
<1>4. CASE w.kind \notin BusKinds
  BY <1>4, BeginsFacts DEF Effect
<1> QED BY <1>1, <1>2, <1>3, <1>4 DEF BusKinds

\* The operations of a queue lead from one state to another, by way of S and G, which
\* only grows, and no further where nothing of the bus is left.
Rest(q, n) == \A k \in n + 1 .. Len(q) : q[k].kind \notin BusKinds
Path(q, S, G) ==
    /\ S \in [0 .. Len(q) -> Seq(Ids)] /\ G \in [0 .. Len(q) -> Called]
    /\ \A k \in 1 .. Len(q) : Effect(q[k], S[k - 1], G[k - 1], S[k], G[k])
    /\ \A k \in 0 .. Len(q) : /\ Begins(G[k], G[Len(q)])
                              /\ Rest(q, k) => G[k] = G[Len(q)]
Leads(q, s, g, s2, g2) ==
    \E S, G : Path(q, S, G) /\ S[0] = s /\ G[0] = g /\ S[Len(q)] = s2 /\ G[Len(q)] = g2

LEMMA LeadsEmpty ==
    ASSUME NEW s \in Seq(Ids), NEW g \in Called
    PROVE  Leads(<<>>, s, g, s, g)
<1> DEFINE S == [k \in 0 .. 0 |-> s]
           G == [k \in 0 .. 0 |-> g]
<1>1. Len(<<>>) = 0
  OBVIOUS
<1>2. Path(<<>>, S, G)
  BY <1>1, BeginsFacts DEF Path
<1> QED BY <1>1, <1>2 DEF Leads

LEMMA LeadsFacts ==
    ASSUME NEW q \in Seq(Works), NEW s, NEW g, NEW s2, NEW g2, Leads(q, s, g, s2, g2)
    PROVE  /\ s \in Seq(Ids) /\ g \in Called /\ s2 \in Seq(Ids) /\ g2 \in Called
           /\ Begins(g, g2)
           /\ Rest(q, 0) => g = g2
<1>1. PICK S, G : Path(q, S, G) /\ S[0] = s /\ G[0] = g /\ S[Len(q)] = s2 /\ G[Len(q)] = g2
  BY DEF Leads
<1>2. 0 \in 0 .. Len(q) /\ Len(q) \in 0 .. Len(q)
  BY LenProperties
<1> QED BY <1>1, <1>2 DEF Path

\* A task that is posted extends what the queue leads to.
LEMMA LeadsAppend ==
    ASSUME NEW q \in Seq(Works), NEW w \in Works, NEW s, NEW g, NEW s2, NEW g2,
           Leads(q, s, g, s2, g2), NEW s3, NEW g3, Effect(w, s2, g2, s3, g3)
    PROVE  Leads(Append(q, w), s, g, s3, g3)
<1>1. PICK S, G : Path(q, S, G) /\ S[0] = s /\ G[0] = g /\ S[Len(q)] = s2 /\ G[Len(q)] = g2
  BY DEF Leads
<1>2. PICK n \in Nat : n = Len(q)
  BY LenProperties
<1>3. PICK p \in Seq(Works) : p = Append(q, w)
  BY AppendProperties
<1>4. Len(p) = n + 1 /\ p[n + 1] = w /\ \A k \in 1 .. n : p[k] = q[k]
  BY <1>2, <1>3, AppendProperties
<1>5. /\ s2 \in Seq(Ids) /\ g2 \in Called /\ s3 \in Seq(Ids) /\ g3 \in Called /\ Begins(g2, g3)
      /\ w.kind \notin BusKinds => g3 = g2
  BY LeadsFacts, EffectFacts DEF Effect
<1> DEFINE T == [k \in 0 .. n + 1 |-> IF k = n + 1 THEN s3 ELSE S[k]]
           H == [k \in 0 .. n + 1 |-> IF k = n + 1 THEN g3 ELSE G[k]]
<1>6. /\ S \in [0 .. n -> Seq(Ids)] /\ G \in [0 .. n -> Called]
      /\ \A k \in 1 .. n : Effect(q[k], S[k - 1], G[k - 1], S[k], G[k])
      /\ \A k \in 0 .. n : Begins(G[k], g2) /\ (Rest(q, k) => G[k] = g2)
  BY <1>1, <1>2 DEF Path
<1>7. /\ T \in [0 .. n + 1 -> Seq(Ids)] /\ H \in [0 .. n + 1 -> Called]
      /\ T[n + 1] = s3 /\ H[n + 1] = g3
      /\ \A k \in 0 .. n : T[k] = S[k] /\ H[k] = G[k]
  <2>1. \A k \in 0 .. n + 1 : k # n + 1 => k \in 0 .. n
    OBVIOUS
  <2>2. n + 1 \in 0 .. n + 1 /\ \A k \in 0 .. n : k \in 0 .. n + 1 /\ k # n + 1
    OBVIOUS
  <2> QED BY <1>5, <1>6, <2>1, <2>2
<1> HIDE DEF T, H
<1>8. ASSUME NEW k \in 1 .. n + 1
      PROVE  Effect(p[k], T[k - 1], H[k - 1], T[k], H[k])
  <2>1. CASE k = n + 1
    <3>1. k - 1 = n /\ n \in 0 .. n
      BY <2>1
    <3> QED BY <1>1, <1>2, <1>4, <1>7, <2>1, <3>1
  <2>2. CASE k # n + 1
    <3>1. k \in 1 .. n /\ k \in 0 .. n /\ k - 1 \in 0 .. n
      BY <2>2
    <3> QED BY <1>4, <1>6, <1>7, <3>1
  <2> QED BY <2>1, <2>2
<1>9. ASSUME NEW k \in 0 .. n + 1
      PROVE  Begins(H[k], g3) /\ (Rest(p, k) => H[k] = g3)
  <2>1. CASE k = n + 1
    BY <1>5, <1>7, <2>1, BeginsFacts
  <2>2. CASE k # n + 1
    <3>1. k \in 0 .. n
      BY <2>2
    <3>2. H[k] = G[k] /\ G[k] \in Called /\ Begins(G[k], g2)
      BY <1>6, <1>7, <3>1
    <3>3. ASSUME Rest(p, k) PROVE H[k] = g3
      <4>1. \A j \in k + 1 .. n + 1 : p[j].kind \notin BusKinds
        BY <1>4, <3>3 DEF Rest
      <4>2. n + 1 \in k + 1 .. n + 1 /\ \A j \in k + 1 .. n : j \in k + 1 .. n + 1 /\ j \in 1 .. n
        BY <3>1
      <4>3. w.kind \notin BusKinds /\ \A j \in k + 1 .. n : q[j].kind \notin BusKinds
        BY <1>4, <4>1, <4>2
      <4>4. Rest(q, k)
        BY <1>2, <4>3 DEF Rest
      <4> QED BY <1>5, <1>6, <3>1, <3>2, <4>3, <4>4
    <3> QED BY <1>5, <3>2, <3>3, BeginsFacts
  <2> QED BY <2>1, <2>2
<1>10. Path(p, T, H)
  BY <1>4, <1>7, <1>8, <1>9 DEF Path
<1>11. T[0] = s /\ H[0] = g
  BY <1>1, <1>7
<1> QED BY <1>3, <1>4, <1>7, <1>10, <1>11 DEF Leads

\* A task that runs has its effect, from which the rest of the queue leads on.
LEMMA LeadsTail ==
    ASSUME NEW q \in Seq(Works), q # <<>>, NEW s, NEW g, NEW s3, NEW g3,
           Leads(q, s, g, s3, g3)
    PROVE  /\ Head(q) \in Works /\ Tail(q) \in Seq(Works)
           /\ \E s2, g2 : Effect(Head(q), s, g, s2, g2) /\ Leads(Tail(q), s2, g2, s3, g3)
<1>1. PICK S, G : Path(q, S, G) /\ S[0] = s /\ G[0] = g /\ S[Len(q)] = s3 /\ G[Len(q)] = g3
  BY DEF Leads
<1>2. PICK n \in Nat : n + 1 = Len(q)
  <2>1. Len(q) \in Nat \ {0}
    BY EmptySeq
  <2>2. PICK m \in Nat \ {0} : m = Len(q)
    BY <2>1
  <2>3. m - 1 \in Nat /\ (m - 1) + 1 = m
    OBVIOUS
  <2> QED BY <2>2, <2>3
<1>3. PICK p \in Seq(Works) : p = Tail(q)
  BY HeadTailProperties
<1>4. Len(p) = n /\ (\A k \in 1 .. n : p[k] = q[k + 1]) /\ Head(q) = q[1] /\ Head(q) \in Works
  <2>1. Len(p) = Len(q) - 1 /\ \A k \in 1 .. Len(p) : p[k] = q[k + 1]
    BY <1>3, HeadTailProperties
  <2>2. (n + 1) - 1 = n
    OBVIOUS
  <2> QED BY <1>2, <2>1, <2>2, HeadTailProperties
<1> DEFINE T == [k \in 0 .. n |-> S[k + 1]]
           H == [k \in 0 .. n |-> G[k + 1]]
<1>5. /\ S \in [0 .. n + 1 -> Seq(Ids)] /\ G \in [0 .. n + 1 -> Called]
      /\ \A k \in 1 .. n + 1 : Effect(q[k], S[k - 1], G[k - 1], S[k], G[k])
      /\ \A k \in 0 .. n + 1 : Begins(G[k], g3) /\ (Rest(q, k) => G[k] = g3)
  BY <1>1, <1>2 DEF Path
<1>6. /\ T \in [0 .. n -> Seq(Ids)] /\ H \in [0 .. n -> Called]
      /\ \A k \in 0 .. n : T[k] = S[k + 1] /\ H[k] = G[k + 1]
  <2>1. \A k \in 0 .. n : k + 1 \in 0 .. n + 1
    OBVIOUS
  <2> QED BY <1>5, <2>1
<1> HIDE DEF T, H
<1>7. ASSUME NEW k \in 1 .. n
      PROVE  Effect(p[k], T[k - 1], H[k - 1], T[k], H[k])
  <2>1. /\ k + 1 \in 1 .. n + 1 /\ k \in 0 .. n /\ k - 1 \in 0 .. n /\ (k + 1) - 1 = k
        /\ (k - 1) + 1 = k
    OBVIOUS
  <2>2. Effect(q[k + 1], S[k], G[k], S[k + 1], G[k + 1])
    BY <1>5, <2>1
  <2>3. T[k - 1] = S[k] /\ H[k - 1] = G[k] /\ T[k] = S[k + 1] /\ H[k] = G[k + 1]
    BY <1>6, <2>1
  <2> QED BY <1>4, <2>2, <2>3
<1>8. ASSUME NEW k \in 0 .. n
      PROVE  Begins(H[k], g3) /\ (Rest(p, k) => H[k] = g3)
  <2>1. k + 1 \in 0 .. n + 1
    OBVIOUS
  <2>2. ASSUME Rest(p, k) PROVE Rest(q, k + 1)
    <3>1. \A j \in k + 1 .. n : q[j + 1].kind \notin BusKinds
      <4>1. \A j \in k + 1 .. n : j \in 1 .. n
        OBVIOUS
      <4> QED BY <1>4, <2>2, <4>1 DEF Rest
    <3>2. ASSUME NEW i \in k + 1 + 1 .. n + 1 PROVE q[i].kind \notin BusKinds
      <4>1. i - 1 \in k + 1 .. n /\ (i - 1) + 1 = i
        OBVIOUS
      <4> QED BY <3>1, <4>1
    <3> QED BY <1>2, <3>2 DEF Rest
  <2> QED BY <1>5, <1>6, <2>1, <2>2
<1>9. T[n] = s3 /\ H[n] = g3
  BY <1>1, <1>2, <1>6
<1>10. Path(p, T, H)
  BY <1>4, <1>6, <1>7, <1>8, <1>9 DEF Path
<1>11. Leads(p, S[1], G[1], s3, g3)
  <2>1. 0 \in 0 .. n /\ 0 + 1 = 1
    OBVIOUS
  <2>2. T[0] = S[1] /\ H[0] = G[1]
    BY <1>6, <2>1
  <2> QED BY <1>4, <1>9, <1>10, <2>2 DEF Leads
<1>12. Effect(Head(q), s, g, S[1], G[1])
  <2>1. 1 \in 1 .. n + 1 /\ 1 - 1 = 0
    OBVIOUS
  <2> QED BY <1>1, <1>4, <1>5, <2>1
<1> QED BY <1>3, <1>4, <1>11, <1>12

Speaking == {t \in Threads : /\ run[t] # Nothing /\ run[t].task.kind = "publish"
                             /\ run[t].at \in {"deliver", "user"}}
Beginning == {t \in Threads : /\ run[t] # Nothing /\ run[t].task.kind \in BusKinds \cup {"flush"}
                              /\ run[t].at = "begin"}
Informing == {t \in Threads : Is(t, {"flush"}, "user")}

\* The callbacks called, and those that the publish that runs has still to call.
Said(now) ==
    /\ Speaking = {} => now = got
    /\ \A t \in Speaking : now = got \o Deliveries(run[t].locals, run[t].task.id)

\* The operations that wait, behind the one that was taken and has not begun.
Line(q) ==
    /\ Beginning = {} => q = fifo[BusRunner]
    /\ \A t \in Beginning : q # <<>> /\ Head(q) = run[t].task /\ Tail(q) = fifo[BusRunner]

\* The inductive invariant: as long as the bus is there, what waits leads from what the
\* tasks have done to what the posts have promised.
Ordered(now, q) ==
    /\ Said(now) /\ Line(q) /\ Begins(now, expected)
    /\ busHandle => Leads(q, subscribers, now, ledger, expected)
Flushed == \A t \in Informing : busHandle => run[t].task.id <= Len(got)
BusOrder == Flushed /\ \E now \in Called, q \in Seq(Works) : Ordered(now, q)

LEMMA SaidFacts ==
    ASSUME Shape, NEW now \in Called, Said(now)
    PROVE  Begins(got, now)
<1>1. got \in Called
  BY DEF Shape, BusShape, Called
<1>2. CASE Speaking = {}
  BY <1>1, <1>2, BeginsFacts DEF Said
<1>3. CASE Speaking # {}
  <2>1. PICK t \in Speaking : now = got \o Deliveries(run[t].locals, run[t].task.id)
    BY <1>3 DEF Said
  <2>2. run[t] \in Runs /\ run[t].task.kind = "publish"
    BY DEF Speaking, Shape, RunnerShape
  <2>3. run[t].locals \in Seq(Ids) /\ run[t].task.id \in Ids
    BY <2>2, WorkTypes DEF Runs, BusKinds
  <2>4. Deliveries(run[t].locals, run[t].task.id) \in Called
    BY <2>3, DeliveriesFacts DEF Called
  <2> QED BY <1>1, <2>1, <2>4, BeginsFacts
<1> QED BY <1>2, <1>3

\* What is in order gives the property.
LEMMA BusOrderInOrder == Shape /\ Placed /\ BusOrder => BusInOrder
<1> SUFFICES ASSUME Shape, Placed, BusOrder PROVE BusInOrder
  OBVIOUS
<1>1. PICK now \in Called, q \in Seq(Works) : Ordered(now, q)
  BY DEF BusOrder
<1>2. got \in Called /\ expected \in Called
  BY DEF Shape, BusShape, Called
<1>3. Begins(got, expected)
  BY <1>1, <1>2, SaidFacts, BeginsFacts DEF Ordered
<1>4. ASSUME busHandle, \A w \in Everywhere : w.kind \notin BusKinds
      PROVE  got = expected
  <2>1. Speaking = {} /\ now = got
    BY <1>1, <1>4 DEF Speaking, Everywhere, Running, Ordered, Said, BusKinds
  <2>2. BusRunner \in Runners /\ fifo[BusRunner] \in Seq(Works)
    BY ClientsAssumption DEF Shape, RunnerShape, Runners
  <2>3. \A w \in Range(fifo[BusRunner]) : w.kind \notin BusKinds
    BY <1>4, <2>2 DEF Everywhere, Queued
  <2>4. Rest(q, 0)
    <3>1. CASE Beginning = {}
      <4>1. q = fifo[BusRunner] /\ DOMAIN q = 1 .. Len(q) /\ Len(q) \in Nat
        BY <1>1, <3>1, LenProperties DEF Ordered, Line
      <4>2. \A k \in 1 .. Len(q) : q[k].kind \notin BusKinds
        BY <2>3, <4>1 DEF Range
      <4> QED BY <4>2 DEF Rest
    <3>2. CASE Beginning # {}
      <4>1. PICK t \in Beginning : /\ q # <<>> /\ Head(q) = run[t].task
                                   /\ Tail(q) = fifo[BusRunner]
        BY <1>1, <3>2 DEF Ordered, Line
      <4>2. Head(q).kind \notin BusKinds
        BY <1>4, <4>1 DEF Beginning, Everywhere, Running
      <4> DEFINE p == Tail(q)
      <4>3. /\ p \in Seq(Works) /\ Len(p) = Len(q) - 1 /\ Head(q) = q[1]
            /\ \A k \in 1 .. Len(p) : p[k] = q[k + 1]
        BY <4>1, HeadTailProperties
      <4>4. DOMAIN p = 1 .. Len(p) /\ p = fifo[BusRunner]
        BY <4>1, <4>3, LenProperties
      <4> HIDE DEF p
      <4>5. PICK n \in Nat : n = Len(q)
        BY LenProperties
      <4>6. \A k \in 1 .. n - 1 : q[k + 1].kind \notin BusKinds
        BY <2>3, <4>3, <4>4, <4>5 DEF Range
      <4>7. ASSUME NEW k \in 1 .. n PROVE q[k].kind \notin BusKinds
        <5>1. CASE k = 1
          BY <4>2, <4>3, <5>1
        <5>2. CASE k # 1
          <6>1. k - 1 \in 1 .. n - 1 /\ (k - 1) + 1 = k
            BY <5>2
          <6> QED BY <4>6, <6>1
        <5> QED BY <5>1, <5>2
      <4> QED BY <4>5, <4>7 DEF Rest
    <3> QED BY <3>1, <3>2
  <2> QED BY <1>1, <1>4, <2>1, <2>4, LeadsFacts DEF Ordered
<1>5. ASSUME NEW t \in Threads, Is(t, {"flush"}, "user"), busHandle
      PROVE  Len(got) >= run[t].task.id
  <2>1. run[t].task.id <= Len(got)
    BY <1>5 DEF BusOrder, Flushed, Informing
  <2>2. run[t].task.id \in Nat /\ Len(got) \in Nat
    <3>1. run[t].task \in Works /\ run[t].task.kind = "flush"
      BY <1>5 DEF Is, Shape, RunnerShape, Runs
    <3> QED BY <1>2, <3>1, WorkTypes, LenProperties DEF Called
  <2>3. PICK i \in Nat, l \in Nat : i = run[t].task.id /\ l = Len(got)
    BY <2>2
  <2> QED BY <2>1, <2>3
<1> QED BY <1>2, <1>3, <1>4, <1>5, BeginsPrefix DEF BusInOrder

LEMMA InitBusOrder == Init => BusOrder
<1> SUFFICES ASSUME Init PROVE BusOrder
  OBVIOUS
<1>1. \A t \in Threads : run[t] = Nothing
  BY DEF Init, RunnersInit
<1>2. fifo[BusRunner] = <<>>
  BY ClientsAssumption DEF Init, RunnersInit, Runners
<1>3. Speaking = {} /\ Beginning = {} /\ Informing = {}
  BY <1>1 DEF Speaking, Beginning, Informing, Is
<1>4. /\ got = <<>> /\ expected = <<>> /\ subscribers = <<>> /\ ledger = <<>>
      /\ <<>> \in Called /\ <<>> \in Seq(Ids) /\ <<>> \in Seq(Works)
  BY EmptySeq DEF Init, BusInit, Called
<1>5. Ordered(got, <<>>)
  BY <1>2, <1>3, <1>4, LeadsEmpty, BeginsFacts DEF Ordered, Said, Line
<1> QED BY <1>3, <1>4, <1>5 DEF BusOrder, Flushed

\* A thread that runs a task of the bus is the only one.
LEMMA OneOnBus ==
    ASSUME Shape, Placed, NEW t \in Threads, run[t] # Nothing,
           run[t].task.kind \in BusKinds \cup {"flush"}
    PROVE  /\ run[t].runner = BusRunner
           /\ Speaking \subseteq {t} /\ Beginning \subseteq {t} /\ Informing \subseteq {t}
<1>1. \A u \in Speaking \cup Beginning \cup Informing :
         /\ u \in Threads /\ run[u] # Nothing
         /\ run[u].task.kind \in BusKinds \cup {"flush"}
  BY DEF Speaking, Beginning, Informing, Is, BusKinds
<1>2. \A u \in Threads : run[u] # Nothing /\ run[u].task.kind \in BusKinds \cup {"flush"}
                          => run[u].runner = BusRunner
  BY DEF Placed, Home
<1> QED BY <1>1, <1>2 DEF Placed

\* Steps that leave those who run tasks of the bus where they are.
Unmoved ==
    /\ Speaking' = Speaking /\ Beginning' = Beginning /\ Informing' \subseteq Informing
    /\ \A t \in Speaking \cup Beginning \cup Informing' : run'[t] = run[t]

LEMMA SameUnmoved == run' = run => Unmoved
BY DEF Unmoved, Speaking, Beginning, Informing, Is

LEMMA GoesUnmoved ==
    ASSUME NEW G, G \cap (BusKinds \cup {"flush"}) = {}, Goes(G)
    PROVE  Unmoved
<1>1. \A t \in Threads :
         \/ run'[t] = run[t]
         \/ /\ run[t] # Nothing /\ run[t].task.kind \notin BusKinds \cup {"flush"}
            /\ run'[t] # Nothing => run'[t].task.kind \notin BusKinds \cup {"flush"}
  BY DEF Goes
<1>2. Speaking' = Speaking /\ \A t \in Speaking : run'[t] = run[t]
  BY <1>1 DEF Speaking, BusKinds
<1>3. Beginning' = Beginning /\ \A t \in Beginning : run'[t] = run[t]
  BY <1>1 DEF Beginning
<1>4. Informing' \subseteq Informing /\ \A t \in Informing' : run'[t] = run[t]
  BY <1>1 DEF Informing, Is
<1> QED BY <1>2, <1>3, <1>4 DEF Unmoved

\* A post lines up behind the others, and has its effect on what they promise.
LEMMA PostOrder ==
    ASSUME Shape, BusOrder, Unmoved, UNCHANGED <<got, subscribers>>,
           busHandle' = busHandle \/ ~busHandle',
           expected' \in Called, Begins(expected, expected'),
           \/ fifo'[BusRunner] = fifo[BusRunner] /\ UNCHANGED <<ledger, expected>>
           \/ \E w \in Works : /\ fifo'[BusRunner] = Append(fifo[BusRunner], w)
                               /\ Effect(w, ledger, expected, ledger', expected')
    PROVE  BusOrder'
<1>1. PICK now \in Called, q \in Seq(Works) : Ordered(now, q)
  BY DEF BusOrder
<1>2. expected \in Called /\ fifo[BusRunner] \in Seq(Works) /\ busHandle \in BOOLEAN
  BY ClientsAssumption DEF Shape, RunnerShape, BusShape, Called, Runners
<1>3. Begins(now, expected')
  BY <1>1, <1>2, BeginsFacts DEF Ordered
<1>4. Said(now)'
  BY <1>1 DEF Ordered, Said, Unmoved
<1>5. Flushed'
  BY <1>2 DEF BusOrder, Flushed, Unmoved
<1>6. busHandle' => busHandle
  BY <1>2
<1>7. CASE fifo'[BusRunner] = fifo[BusRunner] /\ UNCHANGED <<ledger, expected>>
  <2>1. Line(q)'
    BY <1>1, <1>7 DEF Ordered, Line, Unmoved
  <2>2. Ordered(now, q)'
    BY <1>1, <1>3, <1>4, <1>6, <1>7, <2>1 DEF Ordered
  <2> QED BY <1>5, <2>2 DEF BusOrder
<1>8. ASSUME NEW w \in Works, fifo'[BusRunner] = Append(fifo[BusRunner], w),
             Effect(w, ledger, expected, ledger', expected')
      PROVE  BusOrder'
  <2>1. PICK p \in Seq(Works) : p = Append(q, w)
    BY AppendProperties
  <2>2. Line(p)'
    <3>1. Beginning = {} => p = fifo'[BusRunner]
      BY <1>1, <1>8, <2>1 DEF Ordered, Line
    <3>2. ASSUME NEW t \in Beginning
          PROVE  p # <<>> /\ Head(p) = run'[t].task /\ Tail(p) = fifo'[BusRunner]
      <4>1. q # <<>> /\ Head(q) = run[t].task /\ Tail(q) = fifo[BusRunner]
        BY <1>1 DEF Ordered, Line
      <4>2. Head(p) = Head(q) /\ Tail(p) = Append(Tail(q), w) /\ p # <<>>
        BY <2>1, <4>1, HeadTailAppend, AppendProperties
      <4> QED BY <1>8, <4>1, <4>2 DEF Unmoved
    <3> QED BY <3>1, <3>2 DEF Line, Unmoved
  <2>3. busHandle' => Leads(p, subscribers, now, ledger', expected')
    BY <1>1, <1>6, <1>8, <2>1, LeadsAppend DEF Ordered
  <2>4. Ordered(now, p)'
    BY <1>3, <1>4, <2>2, <2>3 DEF Ordered
  <2> QED BY <1>5, <2>4 DEF BusOrder
<1> QED BY <1>7, <1>8

LEMMA WithinOrder ==
    ASSUME Shape, BusOrder, NEW G, G \cap (BusKinds \cup {"flush"}) = {}, Within(G),
           UNCHANGED busVars
    PROVE  BusOrder'
<1>1. Unmoved /\ UNCHANGED <<got, subscribers, busHandle, ledger, expected>>
  BY GoesUnmoved DEF Within, busVars
<1>2. expected \in Called /\ Begins(expected, expected) /\ BusRunner \in Runners
  BY BeginsFacts, ClientsAssumption DEF Shape, BusShape, Called, Runners
<1>3. \/ fifo'[BusRunner] = fifo[BusRunner]
      \/ \E w \in Works : /\ fifo'[BusRunner] = Append(fifo[BusRunner], w)
                          /\ Effect(w, ledger, expected, ledger, expected)
  <2>1. CASE fifo' = fifo
    BY <2>1
  <2>2. ASSUME NEW r \in Runners, NEW w \in Works, w.kind \in G, fifo' = Posted(r, w)
        PROVE  \/ fifo'[BusRunner] = fifo[BusRunner]
               \/ /\ fifo'[BusRunner] = Append(fifo[BusRunner], w)
                  /\ Effect(w, ledger, expected, ledger, expected)
    <3>1. w.kind \notin BusKinds \cup {"flush"}
      BY <2>2
    <3>2. Effect(w, ledger, expected, ledger, expected)
      BY <3>1 DEF Effect, BusKinds
    <3> QED BY <1>2, <2>2, <3>2, PostedFacts DEF Shape
  <2> QED BY <2>1, <2>2 DEF Within, Posts
<1> QED BY <1>1, <1>2, <1>3, PostOrder

LEMMA BusCallOrder ==
    ASSUME Shape, BusOrder, NEW c \in Callers, BusCall(c) \/ SubscribePosts(c)
    PROVE  BusOrder'
<1>1. Unmoved /\ UNCHANGED <<got, subscribers>> /\ BusRunner \in Runners /\ RunnerShape
  BY SameUnmoved, ClientsAssumption
     DEF BusCall, Subscribe, Unsubscribe, Publish, Flush, DropBus, SubscribePosts, Runners, Shape
<1>2. expected \in Called /\ Begins(expected, expected) /\ ledger \in Seq(Ids)
  BY BeginsFacts DEF Shape, BusShape, Called
<1>3. CASE Subscribe(c) \/ DropBus(c)
  <2>1. /\ fifo' = fifo /\ UNCHANGED <<ledger, expected>>
        /\ busHandle' = busHandle \/ ~busHandle'
    BY <1>3 DEF Subscribe, DropBus
  <2> QED BY <1>1, <1>2, <2>1, PostOrder
<1>4. ASSUME NEW k \in {"subscribe", "unsubscribe"}, NEW id \in Ids,
             fifo' = Posted(BusRunner, Work(k, id)), UNCHANGED <<expected, busHandle>>,
             ledger' = IF k = "subscribe" THEN Append(ledger, id) ELSE Without(ledger, id)
      PROVE  BusOrder'
  <2>1. PICK w \in Works : w = Work(k, id) /\ w.kind = k /\ w.id = id
    BY BusWork DEF BusKinds
  <2>2. Effect(w, ledger, expected, ledger', expected')
    BY <1>4, <2>1 DEF Effect, BusKinds
  <2>3. fifo'[BusRunner] = Append(fifo[BusRunner], w)
    BY <1>1, <1>4, <2>1, PostedFacts
  <2> QED BY <1>1, <1>2, <1>4, <2>2, <2>3, PostOrder
<1>5. CASE Unsubscribe(c)
  <2>1. PICK id \in Range(ledger) : /\ fifo' = Posted(BusRunner, Work("unsubscribe", id))
                                    /\ ledger' = Without(ledger, id)
    BY <1>5 DEF Unsubscribe
  <2>2. id \in Ids /\ UNCHANGED <<expected, busHandle>>
    BY <1>2, <1>5, <2>1, RangeOfIds DEF Unsubscribe
  <2> QED BY <1>4, <2>1, <2>2
<1>6. CASE SubscribePosts(c)
  <2>1. call[c].id \in Ids
    BY <1>6 DEF SubscribePosts, Shape, RunnerShape, CallsInProgress
  <2> QED BY <1>4, <1>6, <2>1 DEF SubscribePosts
<1>7. CASE Publish(c)
  <2>1. published + 1 \in Ids
    BY <1>7, RunnersAssumption DEF Publish, Shape, BusShape, MayCall, RunnerShape, Ids
  <2>2. PICK e \in Ids : e = published + 1
    BY <2>1
  <2>3. PICK w \in Works : w = Work("publish", e) /\ w.kind = "publish" /\ w.id = e
    BY BusWork DEF BusKinds
  <2>4. expected' = expected \o Deliveries(ledger, e) /\ UNCHANGED <<ledger, busHandle>>
    BY <1>7, <2>2 DEF Publish
  <2>5. Deliveries(ledger, e) \in Called
    BY <1>2, DeliveriesFacts DEF Called
  <2>6. expected' \in Called /\ Begins(expected, expected')
    BY <1>2, <2>4, <2>5, BeginsFacts
  <2>7. Effect(w, ledger, expected, ledger', expected')
    BY <2>3, <2>4 DEF Effect, BusKinds
  <2>8. fifo'[BusRunner] = Append(fifo[BusRunner], w)
    BY <1>1, <1>7, <2>2, <2>3, PostedFacts DEF Publish
  <2> QED BY <1>1, <2>4, <2>6, <2>7, <2>8, PostOrder
<1>8. CASE Flush(c)
  <2>1. Len(expected) \in Nat
    BY <1>2, LenProperties DEF Called
  <2>2. PICK w \in Works : /\ w = Work("flush", Len(expected)) /\ w.kind = "flush"
                           /\ w.id = Len(expected)
    BY <2>1, FlushWork
  <2>3. UNCHANGED <<ledger, expected, busHandle>>
    BY <1>8 DEF Flush
  <2>4. Effect(w, ledger, expected, ledger', expected')
    BY <2>2, <2>3 DEF Effect, BusKinds
  <2>5. fifo'[BusRunner] = Append(fifo[BusRunner], w)
    BY <1>1, <1>8, <2>2, PostedFacts DEF Flush
  <2> QED BY <1>1, <1>2, <2>3, <2>4, <2>5, PostOrder
<1> QED BY <1>3, <1>5, <1>6, <1>7, <1>8 DEF BusCall

\* What an operation finds that begins: nobody runs for the bus but itself, and it is
\* the next whose effect counts.
LEMMA BeginFinds ==
    ASSUME Shape, Placed, BusOrder, NEW t \in Threads, run[t] # Nothing,
           run[t].task.kind \in BusKinds \cup {"flush"}, run[t].at = "begin"
    PROVE  /\ Speaking = {} /\ Beginning = {t} /\ Informing = {}
           /\ got \in Called /\ Begins(got, expected)
           /\ BusAlive <=> busHandle
           /\ busHandle => \E s, g : /\ Effect(run[t].task, subscribers, got, s, g)
                                     /\ Leads(fifo[BusRunner], s, g, ledger, expected)
<1>1. Speaking = {} /\ Beginning = {t} /\ Informing = {}
  <2>1. Speaking \subseteq {t} /\ Beginning \subseteq {t} /\ Informing \subseteq {t}
    BY OneOnBus
  <2>2. t \in Beginning /\ t \notin Speaking /\ t \notin Informing
    BY DEF Beginning, Speaking, Informing, Is
  <2> QED BY <2>1, <2>2
<1>2. PICK now \in Called, q \in Seq(Works) : Ordered(now, q)
  BY DEF BusOrder
<1>3. now = got
  BY <1>1, <1>2 DEF Ordered, Said
<1>4. q # <<>> /\ Head(q) = run[t].task /\ Tail(q) = fifo[BusRunner]
  BY <1>1, <1>2 DEF Ordered, Line
<1>5. BusAlive <=> busHandle
  BY <1>1 DEF BusAlive, Speaking, Is
<1>6. ASSUME busHandle
      PROVE  \E s, g : /\ Effect(run[t].task, subscribers, got, s, g)
                       /\ Leads(fifo[BusRunner], s, g, ledger, expected)
  <2>1. Leads(q, subscribers, got, ledger, expected)
    BY <1>2, <1>3, <1>6 DEF Ordered
  <2>2. \E s, g : Effect(Head(q), subscribers, got, s, g) /\ Leads(Tail(q), s, g, ledger, expected)
    BY <1>4, <2>1, LeadsTail
  <2> QED BY <1>4, <2>2
<1> QED BY <1>1, <1>2, <1>3, <1>5, <1>6 DEF Ordered

\* Where no operation waits to begin any more, the queue is the runner's.
LEMMA BegunOrder ==
    ASSUME Shape', Beginning' = {}, NEW now \in Called, Said(now)', Begins(now, expected'),
           busHandle' => Leads(fifo'[BusRunner], subscribers', now, ledger', expected'),
           Flushed'
    PROVE  BusOrder'
<1>1. PICK q \in Seq(Works) : q = fifo'[BusRunner]
  BY ClientsAssumption DEF Shape, RunnerShape, Runners
<1>2. Line(q)'
  BY <1>1 DEF Line
<1>3. Ordered(now, q)'
  BY <1>1, <1>2 DEF Ordered
<1> QED BY <1>3 DEF BusOrder

\* A task that is over leaves nobody who runs for the bus.
LEMMA EndedBus ==
    ASSUME Shape, Placed, NEW t \in Threads, run[t] # Nothing,
           run[t].task.kind \in BusKinds \cup {"flush"}, Ended(t)
    PROVE  Speaking' = {} /\ Beginning' = {} /\ Informing' = {}
<1>1. Speaking \subseteq {t} /\ Beginning \subseteq {t} /\ Informing \subseteq {t}
  BY OneOnBus
<1>2. run'[t] = Nothing /\ \A u \in Threads \ {t} : run'[u] = run[u]
  BY DEF Ended, Others
<1> QED BY <1>1, <1>2 DEF Speaking, Beginning, Informing, Is

\* One that goes on stays the only one.
LEMMA MovedBus ==
    ASSUME Shape, Placed, NEW t \in Threads, run[t] # Nothing,
           run[t].task.kind \in BusKinds \cup {"flush"}, NEW a \in {"deliver", "user"}, NEW l,
           Moved(t, a, l)
    PROVE  /\ Beginning' = {}
           /\ Speaking' = IF run[t].task.kind = "publish" THEN {t} ELSE {}
           /\ Informing' = IF run[t].task.kind = "flush" /\ a = "user" THEN {t} ELSE {}
           /\ run'[t].task = run[t].task /\ run'[t].locals = l
<1>1. Speaking \subseteq {t} /\ Beginning \subseteq {t} /\ Informing \subseteq {t}
  BY OneOnBus
<1>2. /\ run'[t] # Nothing /\ run'[t].task = run[t].task /\ run'[t].at = a
      /\ run'[t].locals = l /\ \A u \in Threads \ {t} : run'[u] = run[u]
  BY DEF Moved, Others
<1>3. Beginning' = {}
  BY <1>1, <1>2 DEF Beginning
<1>4. Speaking' = IF run[t].task.kind = "publish" THEN {t} ELSE {}
  BY <1>1, <1>2 DEF Speaking
<1>5. Informing' = IF run[t].task.kind = "flush" /\ a = "user" THEN {t} ELSE {}
  BY <1>1, <1>2 DEF Informing, Is
<1> QED BY <1>2, <1>3, <1>4, <1>5

LEMMA BusUpdateOrder ==
    ASSUME Shape, Shape', Placed, BusOrder, NEW t \in Threads, BusUpdate(t)
    PROVE  BusOrder'
<1>1. /\ run[t] # Nothing /\ run[t].task.kind \in {"subscribe", "unsubscribe"}
      /\ run[t].task.kind \in BusKinds \cup {"flush"} /\ run[t].at = "begin"
  BY DEF BusUpdate, Is, BusKinds
<1>2. Ended(t)
  BY EndedFacts DEF BusUpdate, Shape
<1>3. Speaking' = {} /\ Beginning' = {} /\ Informing' = {}
  BY <1>1, <1>2, EndedBus
<1>4. UNCHANGED <<fifo, busHandle, got, ledger, expected>>
  BY DEF BusUpdate
<1>5. got \in Called /\ Begins(got, expected) /\ (BusAlive <=> busHandle)
  BY <1>1, BeginFinds
<1>6. busHandle => Leads(fifo[BusRunner], subscribers', got, ledger, expected)
  <2>1. SUFFICES ASSUME busHandle
                 PROVE  Leads(fifo[BusRunner], subscribers', got, ledger, expected)
    OBVIOUS
  <2>2. PICK s, g : /\ Effect(run[t].task, subscribers, got, s, g)
                    /\ Leads(fifo[BusRunner], s, g, ledger, expected)
    BY <1>1, <2>1, BeginFinds
  <2>3. subscribers' = IF run[t].task.kind = "subscribe"
                         THEN Append(subscribers, run[t].task.id)
                         ELSE Without(subscribers, run[t].task.id)
    BY <1>5, <2>1 DEF BusUpdate
  <2>4. s = subscribers' /\ g = got
    BY <1>1, <2>2, <2>3 DEF Effect
  <2> QED BY <2>2, <2>4
<1>7. Said(got)' /\ Flushed'
  BY <1>3, <1>4 DEF Said, Flushed
<1> QED BY <1>3, <1>4, <1>5, <1>6, <1>7, BegunOrder

LEMMA BusDispatchOrder ==
    ASSUME Shape, Shape', Placed, BusOrder, NEW t \in Threads, BusDispatch(t)
    PROVE  BusOrder'
<1>1. /\ run[t] # Nothing /\ run[t].task.kind = "publish"
      /\ run[t].task.kind \in BusKinds \cup {"flush"} /\ run[t].at = "begin"
  BY DEF BusDispatch, Is, BusKinds
<1>2. UNCHANGED <<fifo, busHandle, subscribers, got, ledger, expected>>
  BY DEF BusDispatch, busVars
<1>3. got \in Called /\ Begins(got, expected) /\ (BusAlive <=> busHandle)
  BY <1>1, BeginFinds
<1>4. CASE ~busHandle
  <2>1. Ended(t)
    BY <1>3, <1>4, EndedFacts DEF BusDispatch, Shape
  <2>2. Speaking' = {} /\ Beginning' = {} /\ Informing' = {}
    BY <1>1, <2>1, EndedBus
  <2>3. Said(got)' /\ Flushed' /\ ~busHandle'
    BY <1>2, <1>4, <2>2 DEF Said, Flushed
  <2> QED BY <1>2, <1>3, <2>2, <2>3, BegunOrder
<1>5. CASE busHandle
  <2>1. PICK s, g : /\ Effect(run[t].task, subscribers, got, s, g)
                    /\ Leads(fifo[BusRunner], s, g, ledger, expected)
    BY <1>1, <1>5, BeginFinds
  <2>2. s = subscribers /\ g = got \o Deliveries(subscribers, run[t].task.id)
    BY <1>1, <2>1 DEF Effect
  <2>3. g \in Called /\ Begins(g, expected)
    <3>1. fifo[BusRunner] \in Seq(Works)
      BY ClientsAssumption DEF Shape, RunnerShape, Runners
    <3> QED BY <2>1, <3>1, LeadsFacts
  <2>4. Moved(t, "deliver", subscribers)
    <3>1. run' = [run EXCEPT ![t].at = "deliver", ![t].locals = subscribers]
      BY <1>3, <1>5 DEF BusDispatch
    <3>2. subscribers \in Seq(Ids) /\ "deliver" \in Points /\ RunnerShape
      BY DEF Shape, BusShape, Points
    <3> QED BY <1>1, <3>1, <3>2, MovedFacts
  <2>5. /\ Beginning' = {} /\ Speaking' = {t} /\ Informing' = {}
        /\ run'[t].task = run[t].task /\ run'[t].locals = subscribers
    BY <1>1, <2>4, MovedBus
  <2>6. Said(g)' /\ Flushed'
    BY <1>2, <2>2, <2>5 DEF Said, Flushed
  <2> QED BY <1>2, <2>1, <2>2, <2>3, <2>5, <2>6, BegunOrder
<1> QED BY <1>4, <1>5

LEMMA FlushDoneOrder ==
    ASSUME Shape, Shape', Placed, BusOrder, NEW t \in Threads, FlushDone(t)
    PROVE  BusOrder'
<1>1. /\ run[t] # Nothing /\ run[t].task.kind = "flush"
      /\ run[t].task.kind \in BusKinds \cup {"flush"} /\ run[t].at = "begin"
  BY DEF FlushDone, Is
<1>2. UNCHANGED <<fifo, busHandle, subscribers, got, ledger, expected>>
  BY DEF FlushDone
<1>3. got \in Called /\ Begins(got, expected)
  BY <1>1, BeginFinds
<1>4. Moved(t, "user", run[t].locals)
  BY <1>1, MoveToFacts DEF FlushDone, Shape, Points
<1>5. /\ Beginning' = {} /\ Speaking' = {} /\ Informing' = {t}
      /\ run'[t].task = run[t].task
  BY <1>1, <1>4, MovedBus
<1>6. busHandle => /\ run[t].task.id = Len(got)
                   /\ Leads(fifo[BusRunner], subscribers, got, ledger, expected)
  <2>1. SUFFICES ASSUME busHandle
                 PROVE  /\ run[t].task.id = Len(got)
                        /\ Leads(fifo[BusRunner], subscribers, got, ledger, expected)
    OBVIOUS
  <2>2. PICK s, g : /\ Effect(run[t].task, subscribers, got, s, g)
                    /\ Leads(fifo[BusRunner], s, g, ledger, expected)
    BY <1>1, <2>1, BeginFinds
  <2>3. run[t].task.id = Len(got) /\ s = subscribers /\ g = got
    BY <1>1, <2>2 DEF Effect, BusKinds
  <2> QED BY <2>2, <2>3
<1>7. Len(got) \in Nat
  BY <1>3, LenProperties DEF Called
<1>8. Said(got)' /\ Flushed'
  BY <1>2, <1>5, <1>6, <1>7 DEF Said, Flushed
<1> QED BY <1>2, <1>3, <1>5, <1>6, <1>8, BegunOrder

LEMMA DeliverNext ==
    ASSUME NEW g \in Called, NEW l \in Seq(Ids), l # <<>>, NEW e \in Ids
    PROVE  g \o Deliveries(l, e) = Append(g, <<Head(l), e>>) \o Deliveries(Tail(l), e)
<1> DEFINE d == Deliveries(l, e)
           c == <<Head(l), e>>
           r == Deliveries(Tail(l), e)
<1>1. PICK k \in Seq(Ids) : k = Tail(l)
  BY HeadTailProperties
<1>2. PICK n \in Nat : Len(k) = n /\ Len(l) = n + 1
  <2>1. Len(l) \in Nat /\ Len(k) \in Nat /\ Len(k) = Len(l) - 1
    BY <1>1, HeadTailProperties, LenProperties
  <2>2. PICK m \in Nat, i \in Nat : m = Len(l) /\ i = Len(k)
    BY <2>1
  <2>3. i = m - 1
    BY <2>1, <2>2
  <2>4. m = i + 1
    BY <2>3
  <2> QED BY <2>2, <2>4
<1>3. Head(l) = l[1] /\ Head(l) \in Ids /\ \A j \in 1 .. n : k[j] = l[j + 1]
  BY <1>1, <1>2, HeadTailProperties
<1>4. d \in Called /\ Len(d) = n + 1 /\ \A j \in 1 .. n + 1 : d[j] = <<l[j], e>>
  BY <1>2, DeliveriesFacts DEF Called
<1>5. r \in Called /\ Len(r) = n /\ \A j \in 1 .. n : r[j] = <<k[j], e>>
  BY <1>1, <1>2, DeliveriesFacts DEF Called
<1>6. c \in Ids \X Ids /\ c = <<l[1], e>>
  BY <1>3
<1> HIDE DEF d, r, c
<1>7. PICK m \in Nat : m = Len(g)
  BY LenProperties DEF Called
<1>8. PICK x \in Called : x = g \o d
  BY <1>4, ConcatProperties DEF Called
<1>9. Len(x) = m + (n + 1) /\ \A j \in 1 .. m + (n + 1) : x[j] = IF j <= m THEN g[j] ELSE d[j - m]
  <2>1. /\ Len(x) = Len(g) + Len(d)
        /\ \A j \in 1 .. Len(g) + Len(d) : x[j] = IF j <= Len(g) THEN g[j] ELSE d[j - Len(g)]
    BY <1>4, <1>8, ConcatProperties DEF Called
  <2> QED BY <1>4, <1>7, <2>1
<1>10. PICK h \in Called : h = Append(g, c)
  BY <1>6, AppendProperties DEF Called
<1>11. Len(h) = m + 1 /\ h[m + 1] = c /\ \A j \in 1 .. m : h[j] = g[j]
  BY <1>6, <1>7, <1>10, AppendProperties DEF Called
<1>12. PICK y \in Called : y = h \o r
  BY <1>5, ConcatProperties DEF Called
<1>13. /\ Len(y) = (m + 1) + n
       /\ \A j \in 1 .. (m + 1) + n : y[j] = IF j <= m + 1 THEN h[j] ELSE r[j - (m + 1)]
  <2>1. /\ Len(y) = Len(h) + Len(r)
        /\ \A j \in 1 .. Len(h) + Len(r) : y[j] = IF j <= Len(h) THEN h[j] ELSE r[j - Len(h)]
    BY <1>5, <1>12, ConcatProperties DEF Called
  <2> QED BY <1>5, <1>11, <2>1
<1>14. Len(x) = Len(y)
  BY <1>9, <1>13
<1>15. ASSUME NEW j \in 1 .. m + (n + 1)
       PROVE  x[j] = y[j]
  <2>0. j \in 1 .. (m + 1) + n
    OBVIOUS
  <2>1. CASE j <= m
    <3>1. j \in 1 .. m /\ j <= m + 1
      BY <2>1
    <3> QED BY <1>9, <1>11, <1>13, <2>0, <2>1, <3>1
  <2>2. CASE j = m + 1
    <3>1. ~(j <= m) /\ j - m = 1 /\ 1 \in 1 .. n + 1
      BY <2>2
    <3>2. x[j] = d[1] /\ d[1] = c
      BY <1>4, <1>6, <1>9, <3>1
    <3>3. y[j] = c
      BY <1>11, <1>13, <2>0, <2>2
    <3> QED BY <3>2, <3>3
  <2>3. CASE j > m + 1
    <3>1. /\ ~(j <= m) /\ ~(j <= m + 1) /\ j - m \in 1 .. n + 1
          /\ j - (m + 1) \in 1 .. n /\ (j - (m + 1)) + 1 = j - m
      BY <2>3
    <3>2. PICK i \in 1 .. n : i = j - (m + 1) /\ i + 1 = j - m
      BY <3>1
    <3>3. x[j] = <<l[i + 1], e>>
      BY <1>4, <1>9, <3>1, <3>2
    <3>4. y[j] = <<k[i], e>>
      BY <1>5, <1>13, <2>0, <3>1, <3>2
    <3> QED BY <1>3, <3>2, <3>3, <3>4
  <2> QED BY <2>1, <2>2, <2>3
<1>16. x = y
  BY <1>9, <1>14, <1>15, SeqEqual DEF Called
<1> QED BY <1>1, <1>8, <1>10, <1>12, <1>16 DEF d, r, c

\* What is said does not change while the callbacks of an event are called.
LEMMA SpeakingOrder ==
    ASSUME Shape, Shape', Placed, BusOrder, NEW t \in Threads,
           Deliver(t) \/ CallbackReturns(t) \/ Delivered(t)
    PROVE  BusOrder'
<1>1. /\ run[t] # Nothing /\ run[t].task.kind = "publish" /\ t \in Speaking
      /\ run[t].task.kind \in BusKinds \cup {"flush"}
  BY DEF Deliver, CallbackReturns, Delivered, Is, BusKinds, Speaking
<1>2. UNCHANGED <<fifo, busHandle, subscribers, ledger, expected>>
  BY DEF Deliver, CallbackReturns, Delivered, busVars
<1>3. PICK now \in Called, q \in Seq(Works) : Ordered(now, q)
  BY DEF BusOrder
<1>4. /\ now = got \o Deliveries(run[t].locals, run[t].task.id)
      /\ Begins(now, expected)
  BY <1>1, <1>3 DEF Ordered, Said
<1>5. q = fifo[BusRunner]
  <2>1. Beginning = {}
    BY <1>1, OneOnBus DEF Beginning, Speaking
  <2> QED BY <1>3, <2>1 DEF Ordered, Line
<1>6. busHandle => Leads(fifo[BusRunner], subscribers, now, ledger, expected)
  BY <1>3, <1>5 DEF Ordered
<1>7. got \in Called /\ run[t].locals \in Seq(Ids) /\ run[t].task.id \in Ids
  <2>1. run[t] \in Runs
    BY <1>1 DEF Shape, RunnerShape
  <2>2. run[t].locals \in Seq(Ids) /\ run[t].task \in Works
    BY <2>1 DEF Runs
  <2> QED BY <1>1, <2>2, WorkTypes DEF Shape, BusShape, Called
<1>8. CASE Deliver(t)
  <2>1. PICK l \in Seq(Ids), e \in Ids : l = run[t].locals /\ e = run[t].task.id
    BY <1>7
  <2>2. /\ l # <<>> /\ got' = Append(got, <<Head(l), e>>)
        /\ run' = [run EXCEPT ![t].at = "user", ![t].locals = Tail(l)]
    BY <1>8, <2>1 DEF Deliver
  <2>3. Tail(l) \in Seq(Ids) /\ Head(l) \in Ids
    BY <2>2, HeadTailProperties
  <2>4. Moved(t, "user", Tail(l))
    BY <1>1, <2>2, <2>3, MovedFacts DEF Shape, Points
  <2>5. /\ Beginning' = {} /\ Speaking' = {t} /\ Informing' = {}
        /\ run'[t].task = run[t].task /\ run'[t].locals = Tail(l)
    BY <1>1, <2>4, MovedBus
  <2>6. now = got' \o Deliveries(Tail(l), e)
    BY <1>4, <1>7, <2>1, <2>2, DeliverNext
  <2>7. Said(now)' /\ Flushed'
    BY <2>1, <2>5, <2>6 DEF Said, Flushed
  <2> QED BY <1>2, <1>4, <1>6, <2>5, <2>7, BegunOrder
<1>9. CASE CallbackReturns(t)
  <2>1. Moved(t, "deliver", run[t].locals)
    BY <1>1, <1>9, MoveToFacts DEF CallbackReturns, Shape, Points
  <2>2. /\ Beginning' = {} /\ Speaking' = {t} /\ Informing' = {}
        /\ run'[t].task = run[t].task /\ run'[t].locals = run[t].locals
    BY <1>1, <2>1, MovedBus
  <2>3. got' = got
    BY <1>9 DEF CallbackReturns, busVars
  <2>4. Said(now)' /\ Flushed'
    BY <1>4, <2>2, <2>3 DEF Said, Flushed
  <2> QED BY <1>2, <1>4, <1>6, <2>2, <2>4, BegunOrder
<1>10. CASE Delivered(t)
  <2>1. Ended(t)
    BY <1>10, EndedFacts DEF Delivered, Shape
  <2>2. Speaking' = {} /\ Beginning' = {} /\ Informing' = {}
    BY <1>1, <2>1, EndedBus
  <2>3. got' = got /\ run[t].locals = <<>>
    BY <1>10 DEF Delivered, busVars
  <2>4. now = got
    <3>1. Deliveries(<<>>, run[t].task.id) = <<>>
      BY DEF Deliveries
    <3> QED BY <1>4, <1>7, <2>3, <3>1, ConcatEmptySeq DEF Called
  <2>5. Said(now)' /\ Flushed'
    BY <2>2, <2>3, <2>4 DEF Said, Flushed
  <2> QED BY <1>2, <1>4, <1>6, <2>2, <2>5, BegunOrder
<1> QED BY <1>8, <1>9, <1>10

LEMMA DoneReturnsOrder ==
    ASSUME Shape, Placed, BusOrder, NEW t \in Threads, DoneReturns(t)
    PROVE  BusOrder'
<1>1. /\ run[t] # Nothing /\ run[t].task.kind = "flush" /\ run[t].at = "user"
      /\ run[t].task.kind \in BusKinds \cup {"flush"}
  BY DEF DoneReturns, Is
<1>2. Ended(t)
  BY EndedFacts DEF DoneReturns, Shape
<1>3. Speaking' = {} /\ Beginning' = {} /\ Informing' = {}
  BY <1>1, <1>2, EndedBus
<1>4. Speaking = {} /\ Beginning = {}
  BY <1>1, OneOnBus DEF Speaking, Beginning
<1>5. Unmoved
  BY <1>3, <1>4 DEF Unmoved
<1>6. /\ UNCHANGED <<fifo, busHandle, subscribers, got, ledger, expected>>
      /\ expected \in Called /\ Begins(expected, expected)
  BY BeginsFacts DEF DoneReturns, busVars, Shape, BusShape, Called
<1> QED BY <1>5, <1>6, PostOrder

LEMMA BusTaskOrder ==
    ASSUME Shape, Shape', Placed, BusOrder, NEW t \in Threads, BusTask(t)
    PROVE  BusOrder'
BY BusUpdateOrder, BusDispatchOrder, FlushDoneOrder, SpeakingOrder, DoneReturnsOrder
   DEF BusTask

LEMMA TakeOrder ==
    ASSUME Shape, Placed, BusOrder, NEW r \in Runners, Take(r)
    PROVE  BusOrder'
<1>1. PICK t \in Threads : Takes(t, r)
  BY TakeFacts
<1>2. /\ run[t] = Nothing /\ run'[t] # Nothing /\ run'[t].task = Head(fifo[r])
      /\ run'[t].at = "begin" /\ Others(t) /\ Home(Head(fifo[r]), r) /\ fifo[r] # <<>>
      /\ \A u \in Threads : run[u] # Nothing => run[u].runner # r
      /\ UNCHANGED <<busHandle, subscribers, got, ledger, expected>>
  BY <1>1 DEF Takes, busVars
<1>3. Informing' = Informing /\ \A u \in Informing : run'[u] = run[u]
  BY <1>2 DEF Informing, Is, Others
<1>4. Speaking' = Speaking /\ \A u \in Speaking : run'[u] = run[u]
  BY <1>2 DEF Speaking, Others
<1>5. /\ expected \in Called /\ Begins(expected, expected) /\ BusRunner \in Runners
      /\ fifo[BusRunner] \in Seq(Works)
  BY BeginsFacts, ClientsAssumption DEF Shape, RunnerShape, BusShape, Called, Runners
<1>6. ASSUME r # BusRunner
      PROVE  BusOrder'
  <2>1. Head(fifo[r]).kind \notin BusKinds \cup {"flush"}
    BY <1>2, <1>6 DEF Home
  <2>2. Beginning' = Beginning /\ \A u \in Beginning : run'[u] = run[u]
    BY <1>2, <2>1 DEF Beginning, Others
  <2>3. fifo'[BusRunner] = fifo[BusRunner]
    BY <1>1, <1>5, <1>6 DEF Takes
  <2>4. Unmoved
    BY <1>3, <1>4, <2>2 DEF Unmoved
  <2> QED BY <1>2, <1>5, <2>3, <2>4, PostOrder
<1>7. ASSUME r = BusRunner
      PROVE  BusOrder'
  <2>1. Beginning = {} /\ Speaking = {} /\ Informing = {}
    BY <1>2, <1>7 DEF Beginning, Speaking, Informing, Is, Placed, Home, BusKinds
  <2>2. PICK now \in Called, q \in Seq(Works) : Ordered(now, q)
    BY DEF BusOrder
  <2>3. now = got /\ q = fifo[BusRunner]
    BY <2>1, <2>2 DEF Ordered, Said, Line
  <2>4. Said(now)' /\ Flushed' /\ Begins(now, expected')
    BY <1>2, <1>3, <1>4, <2>1, <2>2, <2>3 DEF Ordered, Said, Flushed
  <2>5. q # <<>> /\ fifo'[BusRunner] = Tail(q) /\ run'[t].task = Head(q)
    BY <1>1, <1>2, <1>7, <2>3 DEF Takes
  <2>6. CASE Head(q).kind \in BusKinds \cup {"flush"}
    <3>1. Beginning' = {t}
      BY <1>2, <2>1, <2>5, <2>6 DEF Beginning, Others
    <3>2. Line(q)'
      BY <2>5, <3>1 DEF Line
    <3>3. Ordered(now, q)'
      BY <1>2, <2>2, <2>4, <3>2 DEF Ordered
    <3> QED BY <2>4, <3>3 DEF BusOrder
  <2>7. CASE Head(q).kind \notin BusKinds \cup {"flush"}
    <3>1. Beginning' = {}
      BY <1>2, <2>1, <2>5, <2>7 DEF Beginning, Others
    <3>2. PICK p \in Seq(Works) : p = Tail(q)
      BY <2>5, HeadTailProperties
    <3>3. Line(p)'
      BY <2>5, <3>1, <3>2 DEF Line
    <3>4. busHandle' => Leads(p, subscribers', now, ledger', expected')
      <4>1. SUFFICES ASSUME busHandle
                     PROVE  Leads(p, subscribers, now, ledger, expected)
        BY <1>2
      <4>2. Leads(q, subscribers, now, ledger, expected)
        BY <2>2, <4>1 DEF Ordered
      <4>3. PICK s, g : /\ Effect(Head(q), subscribers, now, s, g)
                        /\ Leads(p, s, g, ledger, expected)
        BY <2>5, <3>2, <4>2, LeadsTail
      <4>4. s = subscribers /\ g = now
        BY <2>7, <4>3 DEF Effect
      <4> QED BY <4>3, <4>4
    <3>5. Ordered(now, p)'
      BY <2>4, <3>3, <3>4 DEF Ordered
    <3> QED BY <2>4, <3>5 DEF BusOrder
  <2> QED BY <2>6, <2>7
<1> QED BY <1>6, <1>7

LEMMA BusOrderKept == Shape /\ Placed /\ BusOrder /\ [Next]_vars => BusOrder'
<1> SUFFICES ASSUME Shape, Placed, BusOrder, [Next]_vars PROVE BusOrder'
  OBVIOUS
<1>0. Shape'
  BY ShapeKept
<1>1. /\ {"tick"} \cap (BusKinds \cup {"flush"}) = {}
      /\ {"task", "reply"} \cap (BusKinds \cup {"flush"}) = {}
      /\ (FileKinds \cup {"done"}) \cap (BusKinds \cup {"flush"}) = {}
  BY DEF FileKinds, Whole, Changes, BusKinds
<1>2. ASSUME NEW c \in Callers, ClientCall(c) \/ CallStep(c)
      PROVE  BusOrder'
  <2>1. CASE BusCall(c) \/ SubscribePosts(c)
    BY <2>1, BusCallOrder
  <2>2. CASE ~(BusCall(c) \/ SubscribePosts(c))
    <3>1. UNCHANGED busVars
      BY <1>2, <2>2 DEF ClientCall, CallStep
    <3>2. Within({"tick"}) \/ Within({"task", "reply"}) \/ Within(FileKinds \cup {"done"})
      BY <1>2, <2>2, TimerWithin, ReplyWithin, FileWithin DEF ClientCall, CallStep
    <3> QED BY <1>1, <3>1, <3>2, WithinOrder
  <2> QED BY <2>1, <2>2
<1>3. ASSUME NEW t \in Threads, TaskStep(t)
      PROVE  BusOrder'
  <2>1. CASE BusTask(t)
    BY <1>0, <2>1, BusTaskOrder
  <2>2. CASE ~BusTask(t)
    <3>1. UNCHANGED busVars
      BY <1>3, <2>2 DEF TaskStep
    <3>2. Within({"tick"}) \/ Within({"task", "reply"}) \/ Within(FileKinds \cup {"done"})
      BY <1>3, <2>2, TimerWithin, ReplyWithin, FileWithin DEF TaskStep
    <3> QED BY <1>1, <3>1, <3>2, WithinOrder
  <2> QED BY <2>1, <2>2
<1>4. ASSUME NEW r \in Runners, NEW w \in Range(later[r]), Deadline(r, w)
      PROVE  BusOrder'
  <2>1. UNCHANGED busVars /\ Within({"tick"})
    BY <1>4, TimerWithin DEF Deadline
  <2> QED BY <1>1, <2>1, WithinOrder
<1>5. CASE UNCHANGED vars
  <2>1. Within({"tick"}) /\ UNCHANGED busVars
    BY <1>5 DEF vars, runnerVars, Within, Goes, Posts
  <2> QED BY <1>1, <2>1, WithinOrder
<1> QED BY <1>2, <1>3, <1>4, <1>5, TakeOrder DEF Next

\* BusInOrder holds: callbacks are called as if each operation took effect when it was
\* posted, although a publish calls them outside the lock and they call the bus again,
\* and a flush comes after the events published before it. While the bus is there, the
\* operations that wait lead from the subscribers there are and the callbacks called to
\* those that the order of the posts alone promises.
THEOREM BusInOrderHolds == Spec => []BusInOrder
<1>1. Shape /\ Placed /\ BusOrder => BusInOrder
  BY BusOrderInOrder
<1> QED BY <1>1, ShapeInvariant, PlacedInvariant, InitBusOrder, BusOrderKept, PTL DEF Spec
=============================================================================

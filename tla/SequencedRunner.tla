-------------------------- MODULE SequencedRunner --------------------------
(***************************************************************************)
(* What the task runners of rust_task promise to the code that posts to    *)
(* them, without workers, locks, queues of sequences or a timer thread.    *)
(* Tasks posted to one sequence start in the order they were posted, one   *)
(* at a time and each at most once; a delayed task starts no earlier than  *)
(* its deadline, and tasks whose deadlines have passed line up, in the     *)
(* order of their deadlines, behind the tasks already waiting.             *)
(***************************************************************************)
EXTENDS Naturals, Sequences, FiniteSets

CONSTANTS Tasks, Seqs, SequenceOf, Delayed, Delay

VARIABLES fifo,      \* tasks waiting in each sequence, in order
          later,     \* delayed tasks of each sequence, with their deadlines
          running,   \* the tasks of each sequence that run
          started,   \* the tasks that were ever started
          clock

vars == <<fifo, later, running, started, clock>>

Init ==
    /\ fifo = [s \in Seqs |-> <<>>]
    /\ later = [s \in Seqs |-> {}]
    /\ running = [s \in Seqs |-> {}]
    /\ started = {}
    /\ clock = 0

Fresh(t) ==
    LET s == SequenceOf[t] IN
    /\ t \notin started
    /\ \A i \in DOMAIN fifo[s] : fifo[s][i] # t
    /\ \A d \in later[s] : d.task # t

Post(t) ==
    /\ Fresh(t) /\ t \notin Delayed
    /\ fifo' = [fifo EXCEPT ![SequenceOf[t]] = Append(@, t)]
    /\ UNCHANGED <<later, running, started, clock>>

\* The deadline lies Delay[t] after the instant at which the call was made.
PostDelayed(t) ==
    /\ Fresh(t) /\ t \in Delayed
    /\ \E r \in Delay[t] .. clock + Delay[t] :
          later' = [later EXCEPT ![SequenceOf[t]] = @ \cup {[task |-> t, ready |-> r]}]
    /\ UNCHANGED <<fifo, running, started, clock>>

Due(s) == {d \in later[s] : d.ready <= clock}

InOrder(D) == {o \in [1 .. Cardinality(D) -> D] :
                  \A i, j \in DOMAIN o :
                     i < j => o[i] # o[j] /\ o[i].ready <= o[j].ready}

Start(s) ==
    /\ running[s] = {}
    /\ \E o \in InOrder(Due(s)) :
         LET q == fifo[s] \o [i \in DOMAIN o |-> o[i].task] IN
         /\ q # <<>>
         /\ fifo' = [fifo EXCEPT ![s] = Tail(q)]
         /\ running' = [running EXCEPT ![s] = {Head(q)}]
         /\ started' = started \cup {Head(q)}
    /\ later' = [later EXCEPT ![s] = @ \ Due(s)]
    /\ UNCHANGED clock

Finish(s) ==
    /\ running[s] # {}
    /\ running' = [running EXCEPT ![s] = {}]
    /\ UNCHANGED <<fifo, later, started, clock>>

Advance == clock' = clock + 1 /\ UNCHANGED <<fifo, later, running, started>>

Next == \/ \E t \in Tasks : Post(t) \/ PostDelayed(t)
        \/ \E s \in Seqs : Start(s) \/ Finish(s)
        \/ Advance

Spec == Init /\ [][Next]_vars
=============================================================================

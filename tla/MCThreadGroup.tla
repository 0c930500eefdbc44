--------------------------- MODULE MCThreadGroup ---------------------------
(* Instances of ThreadGroup for TLC. *)
EXTENDS ThreadGroup

CONSTANTS A, B,             \* sequences
          t1, t2, t3, t4    \* tasks

\* Workers are interchangeable, and so are clients; the safety run uses this.
Symmetry == Permutations(Workers) \cup Permutations(Clients)

NoReply == [t \in Tasks |-> NoTask]
FirstPriority == [s \in Seqs |-> IF s = A THEN 1 ELSE 0]

\* sched: an immediate task, two delayed ones with different deadlines and the
\* reply to the first, which a worker posts, share sequence A.
SchedSequenceOf == (t1 :> A) @@ (t2 :> A) @@ (t3 :> A) @@ (t4 :> A)
SchedReply == [NoReply EXCEPT ![t1] = t4]
SchedDelay == (t2 :> 1) @@ (t3 :> 0)

\* live: a task that may panic and a delayed one share sequence B; the task of
\* sequence A must run whatever happens to them.
LiveSequenceOf == (t1 :> B) @@ (t2 :> B) @@ (t3 :> A)
LiveDelay == (t2 :> 1)
=============================================================================

--------------------------- MODULE MCIoTaskRunner ---------------------------
(* Instances of IoTaskRunner for TLC. *)
EXTENDS IoTaskRunner, TLC

CONSTANTS k1, k2,        \* clients
          d1, d2,        \* delayed tasks
          cr, cw, co,    \* controllers: a reader and a writer of one descriptor, and
                         \* one that reads and writes another descriptor
          f1, f2, x

MCDelay == [t \in Delayed |-> IF t = d1 THEN 1 ELSE 4]

MCFdOf == [c \in Controllers |-> IF c = co THEN f2 ELSE f1]
MCModeOf == [c \in Controllers |-> CASE c = cr -> "ReadWrite" [] c = cw -> "Write"
                                     [] OTHER -> "Read"]
MCWatcherOf == [c \in Controllers |-> x]
MCConditions == [fd \in Fds |-> IF fd = f1 THEN {"in", "out"} ELSE {"hup"}]

\* The controllers that share a descriptor stay on the IO thread.
MCUsers == [c \in Controllers |-> IF c = co THEN Threads ELSE {IO}]

Symmetry == Permutations(Clients)
=============================================================================

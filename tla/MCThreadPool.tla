---------------------------- MODULE MCThreadPool ----------------------------
(* Instances of ThreadPool for TLC. *)
EXTENDS ThreadPool

CONSTANTS b1, b2, s1, c1    \* tasks: BlockShutdown, SkipOnShutdown, ContinueOnShutdown

MCBehavior == [t \in Tasks |-> CASE t \in {b1, b2} -> "BlockShutdown"
                                 [] t = s1 -> "SkipOnShutdown"
                                 [] OTHER -> "ContinueOnShutdown"]
=============================================================================

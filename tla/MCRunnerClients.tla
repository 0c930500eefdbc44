-------------------------- MODULE MCRunnerClients --------------------------
(* The instance of RunnerClients for TLC. *)
EXTENDS RunnerClients
=============================================================================

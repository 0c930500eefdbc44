------------------------- MODULE MCTlsClientSocket -------------------------
(* Instances of TlsClientSocket for TLC. *)
EXTENDS TlsClientSocket
=============================================================================

--------------------------- MODULE MCSocketPosix ---------------------------
(* Instances of SocketPosix for TLC. *)
EXTENDS SocketPosix
=============================================================================

---------------------------- MODULE MCTcpSockets ----------------------------
(* The instance of TcpSockets for TLC. *)
EXTENDS TcpSockets

\* The conversion of addresses at the boundaries of their bytes; the theorems of
\* SocketAddress_proofs are about all of them.
Boundary == {0, 1, 255, 256, 443, 32768, 65535}
Addresses == [family : {"V4"}, ip : Boundary \X Boundary, port : Boundary]
             \cup [family : {"V6"}, ip : Octets6, port : Boundary, flowinfo : {0, 1}, scope : {0, 2}]

ASSUME AddressesSurvive ==
    \A a \in Addresses : /\ OnTheWire(ToSockaddr(a)) = Kept(a)
                         /\ FromSockaddr(ToSockaddr(a)) = Kept(a)
=============================================================================

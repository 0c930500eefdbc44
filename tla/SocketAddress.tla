--------------------------- MODULE SocketAddress ---------------------------
(***************************************************************************)
(* Socket addresses on their way to the kernel and back (syscall_bind,     *)
(* syscall_connect and getsockname_addr of rust_net/socket_posix.rs): the  *)
(* port and the IPv4 address are integers of the host whose bytes in       *)
(* memory the kernel reads in network order; an IPv6 address is an array   *)
(* of octets, opaque here.                                                 *)
(***************************************************************************)
EXTENDS Integers

CONSTANTS LittleEndian,    \* the byte order of the host
          Octets6          \* the IPv6 addresses

ASSUME OrderAssumption == LittleEndian \in BOOLEAN

Ports == {p \in Nat : p < 65536}
Halves == Ports          \* an IPv4 address is a pair of these, the upper one first

\* The bytes of a 16-bit integer, in the order of their addresses.
Bytes(x) == IF LittleEndian THEN <<x % 256, x \div 256>> ELSE <<x \div 256, x % 256>>

\* u16::to_be and u16::from_be: the bytes are swapped on a little-endian host.
Be(x) == IF LittleEndian THEN (x % 256) * 256 + x \div 256 ELSE x

\* u32::to_be also swaps the halves on such a host.
Be32(ip) == IF LittleEndian THEN <<Be(ip[2]), Be(ip[1])>> ELSE ip
Bytes32(ip) == IF LittleEndian THEN <<Bytes(ip[2]), Bytes(ip[1])>>
                               ELSE <<Bytes(ip[1]), Bytes(ip[2])>>

V4 == [family : {"V4"}, ip : Halves \X Halves, port : Ports]
V6 == [family : {"V6"}, ip : Octets6, port : Ports, flowinfo : Nat, scope : Nat]

\* The sockaddr that is passed to bind and connect.
ToSockaddr(a) ==
    IF a.family = "V4"
      THEN [family |-> "V4", ip |-> Be32(a.ip), port |-> Be(a.port)]
      ELSE [family |-> "V6", ip |-> a.ip, port |-> Be(a.port), flowinfo |-> 0, scope |-> 0]

\* What the kernel reads from it: the bytes in network order.
Network(bytes) == bytes[1] * 256 + bytes[2]
Network32(bytes) == <<Network(bytes[1]), Network(bytes[2])>>
OnTheWire(sa) ==
    IF sa.family = "V4"
      THEN [family |-> "V4", ip |-> Network32(Bytes32(sa.ip)), port |-> Network(Bytes(sa.port))]
      ELSE [family |-> "V6", ip |-> sa.ip, port |-> Network(Bytes(sa.port)),
            flowinfo |-> sa.flowinfo, scope |-> sa.scope]

\* getsockname_addr of a sockaddr.
FromSockaddr(sa) ==
    IF sa.family = "V4"
      THEN [family |-> "V4", ip |-> Be32(sa.ip), port |-> Be(sa.port)]
      ELSE [family |-> "V6", ip |-> sa.ip, port |-> Be(sa.port),
            flowinfo |-> sa.flowinfo, scope |-> sa.scope]

\* The zone and the flow label of an IPv6 address are not passed on.
Kept(a) ==
    IF a.family = "V4" THEN a
    ELSE [family |-> "V6", ip |-> a.ip, port |-> a.port, flowinfo |-> 0, scope |-> 0]
=============================================================================

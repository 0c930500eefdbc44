------------------------ MODULE SocketAddress_proofs ------------------------
(* The conversions of SocketAddress lose nothing but what Kept leaves out. *)
EXTENDS SocketAddress, TLAPS

\* Swapping the bytes of a port twice gives it back, within 16 bits.
LEMMA BeTwice == ASSUME NEW x \in Ports PROVE Be(x) \in Ports /\ Be(Be(x)) = x
<1>1. PICK h \in 0 .. 255, l \in 0 .. 255 : x = h * 256 + l
  <2>1. x \div 256 \in 0 .. 255 /\ x % 256 \in 0 .. 255 /\ x = (x \div 256) * 256 + (x % 256)
    BY DEF Ports
  <2> QED BY <2>1
<1>2. x % 256 = l /\ x \div 256 = h
  BY <1>1
<1>3. (l * 256 + h) % 256 = h /\ (l * 256 + h) \div 256 = l
  BY <1>1
<1>4. CASE LittleEndian
  <2>1. Be(x) = l * 256 + h
    BY <1>2, <1>4 DEF Be
  <2>2. Be(l * 256 + h) = h * 256 + l
    BY <1>3, <1>4 DEF Be
  <2>3. Be(x) \in Ports
    BY <1>1, <2>1 DEF Ports
  <2>4. Be(Be(x)) = x
    BY <1>1, <2>1, <2>2
  <2> QED BY <2>3, <2>4
<1>5. CASE ~LittleEndian
  BY <1>5 DEF Be
<1> QED BY <1>4, <1>5

\* The kernel reads a port in network order from the bytes of what is stored.
LEMMA NetworkOrder == ASSUME NEW x \in Ports PROVE Network(Bytes(Be(x))) = x
<1>1. PICK h \in 0 .. 255, l \in 0 .. 255 : x = h * 256 + l
  <2>1. x \div 256 \in 0 .. 255 /\ x % 256 \in 0 .. 255 /\ x = (x \div 256) * 256 + (x % 256)
    BY DEF Ports
  <2> QED BY <2>1
<1>2. x % 256 = l /\ x \div 256 = h
  BY <1>1
<1>3. (l * 256 + h) % 256 = h /\ (l * 256 + h) \div 256 = l
  BY <1>1
<1>4. CASE LittleEndian
  <2>1. Be(x) = l * 256 + h
    BY <1>2, <1>4 DEF Be
  <2>2. Bytes(Be(x)) = <<h, l>>
    BY <2>1, <1>3, <1>4 DEF Bytes
  <2> QED BY <2>2, <1>1 DEF Network
<1>5. CASE ~LittleEndian
  <2>1. Bytes(Be(x)) = <<h, l>>
    BY <1>2, <1>5 DEF Bytes, Be
  <2> QED BY <2>1, <1>1 DEF Network
<1> QED BY <1>4, <1>5

\* What bind and connect hand to the kernel reads there as the address that was
\* asked for, zone and flow label excepted, on hosts of either byte order.
THEOREM KernelSeesAddress ==
    ASSUME NEW a \in V4 \cup V6 PROVE OnTheWire(ToSockaddr(a)) = Kept(a)
<1>1. CASE a \in V4
  <2>1. a.ip[1] \in Ports /\ a.ip[2] \in Ports /\ a.port \in Ports /\ a.family = "V4"
    <3>1. a.ip \in Halves \X Halves /\ a.port \in Ports /\ a.family = "V4"
      BY <1>1 DEF V4
    <3>2. a.ip[1] \in Halves /\ a.ip[2] \in Halves
      BY <3>1
    <3> QED BY <3>1, <3>2 DEF Halves
  <2>2. a.ip = <<a.ip[1], a.ip[2]>>
    BY <1>1 DEF V4
  <2>3. ToSockaddr(a) = [family |-> "V4", ip |-> Be32(a.ip), port |-> Be(a.port)]
    BY <2>1 DEF ToSockaddr
  <2>4. Network(Bytes(Be(a.port))) = a.port
    BY <2>1, NetworkOrder
  <2>5. Network32(Bytes32(Be32(a.ip))) = a.ip
    <3>1. /\ Network(Bytes(Be(a.ip[1]))) = a.ip[1] /\ Network(Bytes(Be(a.ip[2]))) = a.ip[2]
      BY <2>1, NetworkOrder
    <3>2. CASE LittleEndian
      BY <2>2, <3>1, <3>2 DEF Be32, Bytes32, Network32
    <3>3. CASE ~LittleEndian
      BY <2>2, <3>1, <3>3 DEF Be32, Bytes32, Be, Network32
    <3> QED BY <3>2, <3>3
  <2>6. OnTheWire(ToSockaddr(a)) = [family |-> "V4", ip |-> a.ip, port |-> a.port]
    BY <2>3, <2>4, <2>5 DEF OnTheWire
  <2> QED BY <1>1, <2>1, <2>6 DEF Kept, V4
<1>2. CASE a \in V6
  <2>1. a.port \in Ports /\ a.family = "V6"
    BY <1>2 DEF V6
  <2>2. Network(Bytes(Be(a.port))) = a.port
    BY <2>1, NetworkOrder
  <2>3. OnTheWire(ToSockaddr(a))
          = [family |-> "V6", ip |-> a.ip, port |-> a.port, flowinfo |-> 0, scope |-> 0]
    BY <2>1, <2>2 DEF ToSockaddr, OnTheWire
  <2> QED BY <1>2, <2>1, <2>3 DEF Kept, V6
<1> QED BY <1>1, <1>2

\* local_addr undoes what bind did to the address.
THEOREM LocalAddressIsBound ==
    ASSUME NEW a \in V4 \cup V6 PROVE FromSockaddr(ToSockaddr(a)) = Kept(a)
<1>1. CASE a \in V4
  <2>1. a.ip[1] \in Ports /\ a.ip[2] \in Ports /\ a.port \in Ports /\ a.family = "V4"
    <3>1. a.ip \in Halves \X Halves /\ a.port \in Ports /\ a.family = "V4"
      BY <1>1 DEF V4
    <3>2. a.ip[1] \in Halves /\ a.ip[2] \in Halves
      BY <3>1
    <3> QED BY <3>1, <3>2 DEF Halves
  <2>2. a.ip = <<a.ip[1], a.ip[2]>>
    BY <1>1 DEF V4
  <2>3. Be(Be(a.port)) = a.port /\ Be(Be(a.ip[1])) = a.ip[1] /\ Be(Be(a.ip[2])) = a.ip[2]
    BY <2>1, BeTwice
  <2>4. Be32(Be32(a.ip)) = a.ip
    BY <2>2, <2>3 DEF Be32
  <2>5. FromSockaddr(ToSockaddr(a)) = [family |-> "V4", ip |-> a.ip, port |-> a.port]
    BY <2>1, <2>3, <2>4 DEF ToSockaddr, FromSockaddr
  <2> QED BY <1>1, <2>1, <2>5 DEF Kept, V4
<1>2. CASE a \in V6
  <2>1. a.port \in Ports /\ a.family = "V6" /\ Be(Be(a.port)) = a.port
    BY <1>2, BeTwice DEF V6
  <2>2. FromSockaddr(ToSockaddr(a))
          = [family |-> "V6", ip |-> a.ip, port |-> a.port, flowinfo |-> 0, scope |-> 0]
    BY <2>1 DEF ToSockaddr, FromSockaddr
  <2> QED BY <1>2, <2>1, <2>2 DEF Kept, V6
<1> QED BY <1>1, <1>2
=============================================================================

SPECIFICATION TcpFairSpec
CONSTANTS
  Sockets = {s1, s2}
  Fds = {f1, f2}
  MaxOps = 3
  NoFd = NoFd
  NoEntry = NoEntry
  Unbound = Unbound
  FullDuplex = FALSE
  Eager = FALSE
  LittleEndian = TRUE
  Octets6 = {loopback, linkLocal}
INVARIANTS
  TypeOK
  PendingArmed
  DescriptorsOwned
PROPERTIES
  OpCompletes

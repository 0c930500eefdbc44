SPECIFICATION Spec
CONSTANTS
  Sockets = {s1, s2}
  Fds = {f1, f2}
  MaxOps = 3
  NoFd = NoFd
  NoEntry = NoEntry
  Unbound = Unbound
  FullDuplex = TRUE
  Eager = FALSE
INVARIANTS
  PendingArmed

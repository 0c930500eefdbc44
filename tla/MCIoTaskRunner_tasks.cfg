SPECIFICATION FairSpec
CONSTANTS
  k1 = k1
  k2 = k2
  d1 = d1
  d2 = d2
  cr = cr
  cw = cw
  co = co
  f1 = f1
  f2 = f2
  x = x
  IO = IO
  Delay <- MCDelay
  FdOf <- MCFdOf
  ModeOf <- MCModeOf
  WatcherOf <- MCWatcherOf
  Users <- MCUsers
  WakeFd = WakeFd
  NoTask = NoTask
  NoThread = NoThread
  NoEvent = NoEvent
  NoEntry = NoEntry
  Unbound = Unbound
  Clients = {k1, k2}
  Stoppers = {k1, k2}
  Tasks = {a, d1, d2}
  Delayed = {d1, d2}
  TicksPerMs = 2
  MaxMs = 1
  Fds = {}
  Controllers = {}
  Watchers = {}
  Persistent = {}
  Conditions <- MCConditions
  MaxWatches = 0
INVARIANTS
  TypeOK
  NoLostWake
  NeverOversleeps
  JoinedMeansGone
PROPERTIES
  WakesServed

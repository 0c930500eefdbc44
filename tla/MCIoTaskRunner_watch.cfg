SPECIFICATION FairSpec
CONSTANTS
  k1 = k1
  k2 = k2
  d1 = d1
  d2 = d2
  cr = cr
  cw = cw
  co = co
  f1 = f1
  f2 = f2
  x = x
  IO = IO
  Delay <- MCDelay
  FdOf <- MCFdOf
  ModeOf <- MCModeOf
  WatcherOf <- MCWatcherOf
  Users <- MCUsers
  WakeFd = WakeFd
  NoTask = NoTask
  NoThread = NoThread
  NoEvent = NoEvent
  NoEntry = NoEntry
  Unbound = Unbound
  Clients = {k1}
  Stoppers = {}
  Tasks = {a}
  Delayed = {}
  TicksPerMs = 1
  MaxMs = 1
  Fds = {f1, f2}
  Controllers = {cr, cw, co}
  Watchers = {x}
  Persistent = {cr}
  Conditions <- MCConditions
  MaxWatches = 2
INVARIANTS
  WatchArmed
  OneShotSpent
PROPERTIES
  OwnerEndsWatch
  WatchServed

SPECIFICATION FairSpec
CONSTANTS
  b1 = b1
  b2 = b2
  s1 = s1
  c1 = c1
  Workers = {w1, w2}
  Posters = {p1}
  Stoppers = {o1, o2}
  Tasks = {b1, b2, s1, c1}
  Behavior <- MCBehavior
  Direct = {b1, b2, s1}
  Delayed = {b2}
  Panicky = {b1}
  NoTask = NoTask
INVARIANTS
  TypeOK
  CountExact
  BlockShutdownHonoured
  QuietAfterShutdown
PROPERTIES
  BlockingTasksFinish
  ShutdownReturns

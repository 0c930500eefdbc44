SPECIFICATION FairSpec
CONSTANTS
  A = A
  B = B
  t1 = t1
  t2 = t2
  t3 = t3
  t4 = t4
  Workers = {w1, w2}
  Clients = {c1}
  Tasks = {t1, t2, t3}
  Seqs = {A, B}
  SequenceOf <- LiveSequenceOf
  Delayed = {t2}
  Delay <- LiveDelay
  Reply <- NoReply
  Panicky = {t1}
  Priority <- FirstPriority
  Timer = Timer
  Owner = Owner
  NoTask = NoTask
  NoSeq = NoSeq
  NoTimeout = NoTimeout
PROPERTIES
  EveryTaskRuns
  ShutdownReturns

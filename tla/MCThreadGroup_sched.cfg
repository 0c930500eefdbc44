SPECIFICATION Spec
CONSTANTS
  A = A
  B = B
  t1 = t1
  t2 = t2
  t3 = t3
  t4 = t4
  Workers = {w1, w2}
  Clients = {c1}
  Tasks = {t1, t2, t3, t4}
  Seqs = {A}
  SequenceOf <- SchedSequenceOf
  Delayed = {t2, t3}
  Delay <- SchedDelay
  Reply <- SchedReply
  Panicky = {}
  Priority <- FirstPriority
  Timer = Timer
  Owner = Owner
  NoTask = NoTask
  NoSeq = NoSeq
  NoTimeout = NoTimeout
INVARIANTS
  TypeOK
  MutualExclusion
  HasWorkerExact
  NoLostTask
  NoSleepOnWork
PROPERTY ImplementsRunner
SYMMETRY Symmetry

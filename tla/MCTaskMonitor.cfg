SPECIFICATION FairSpec
CONSTANTS
  Workers = {w1, w2}
  Threshold = 2
  Interval = 1
  MaxLag = 1
  Idle = Idle
INVARIANTS
  TypeOK
  ScanExact
PROPERTIES
  MonitorLive

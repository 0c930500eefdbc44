SPECIFICATION FairSpec
CONSTANTS
  Users = {u1}
  Workers = {w1}
  IoThread = io
  PoolRunners = {S, B}
  IoRunner = I
  TimerRunner = S
  FileRunner = S
  BusRunner = B
  None = None
  Nothing = Nothing
  MaxCalls = 4
  MaxEach = 2
  FileOps = {"read", "append", "write_all"}
INVARIANTS
  TypeOK
  EnvironmentExact
  TimerSound
  BusInOrder
  FilesInOrder
PROPERTY ClientsServed
CHECK_DEADLOCK FALSE

CONSTANTS
  A = A
  B = B
  w1 = w1
  NoDO = 0
  NoAddr = NoAddr
  Task <- MCTasks2
  Comm <- MCComms
  Wait = {w1}
  BatchValid <- MCTasks2
  Addr = {A}
  WaitAccesses <- MCWaits
  Workers = 2
  Programs <- LivePrograms
SPECIFICATION PlainFairSpec
PROPERTIES TasksComplete CallsReturn
CHECK_DEADLOCK FALSE

CONSTANTS
  A = A
  B = B
  w1 = w1
  NoDO = 0
  NoAddr = NoAddr
  Task <- MCTasks3
  Comm <- MCComms
  Wait = {w1}
  BatchValid <- MCTasks3
  Addr = {A, B}
  WaitAccesses <- MCWaits
  Workers = 2
  Programs <- MCPrograms
SPECIFICATION PlainSpec
INVARIANTS PurgedIsUnreachable
PROPERTIES RefinesTaskOrder RefinesDependableObject WaitOnIsSound ClearIsSafe
CHECK_DEADLOCK FALSE

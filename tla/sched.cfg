SPECIFICATION SchedSpec
CONSTANTS
  NoWD <- MCNone
  NoThread <- MCNone
  Thread <- MCThread
  WD <- MCWD
  Target <- MCTarget
  Program <- MCProgram
INVARIANTS CommutativeExclusive TasksAccounted OwnersInv RunsInOrder
PROPERTIES HighestFirst EveryTaskRuns

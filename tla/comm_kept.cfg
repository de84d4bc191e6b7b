SPECIFICATION SchedSpec
CONSTANTS
  NoWD <- MCNone
  NoThread <- MCNone
  Thread <- MCThread
  WD <- MCWD
  Target <- MCTarget
  Program <- MCKept
INVARIANT FinishedOwnsNothing

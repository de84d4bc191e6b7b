CONSTANTS
  Thread <- MCThreads
  Last <- MCLast
  Kind <- MCKind
  Participant <- MCParticipants
  Rounds = 4
  MaxThreads = 3
  Programs <- MCPrograms
SPECIFICATION TCSpec
INVARIANTS OneWinner InitialisedWhenPassed TSInv ReductionsInBarrier
PROPERTIES BarrierSpec EveryoneLeaves
CHECK_DEADLOCK FALSE

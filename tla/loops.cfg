CONSTANTS
  MaxThreads = 3
  Programs <- MCPrograms
  Works <- MCWorks
  ReplicateKinds <- Schedules
  ReplicateLoops <- SomeLoops
SPECIFICATION LPSpec
INVARIANTS IterationOnce LoopCovered LastOnce SlicesBounded OneCreator
CHECK_DEADLOCK FALSE

CONSTANTS
  Slaves = {1, 2}
  Regions = {"a", "b"}
  Threads = {1, 2}
  Presend = 2
  Buffers = 1
  Programs <- MCPrograms
SPECIFICATION FairSpec
PROPERTIES RunsOnCurrentData EveryTaskEnds
CHECK_DEADLOCK FALSE

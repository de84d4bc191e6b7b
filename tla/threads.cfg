SPECIFICATION TMSpec
CONSTANTS
  Worker <- MCWorker
  Cpu <- MCCpu
  CpuOf <- MCCpuOf
  Setups <- MCSetups
INVARIANTS TeamInv MaskIsTrue
PROPERTIES WorkIsTaken LeaversLeave
CHECK_DEADLOCK FALSE

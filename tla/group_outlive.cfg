CONSTANTS
  r = r  a = a  b = b
  WD = {r, a, b}
  Root = r
  NoWD = NoWD
  Threads = 2
  MaxWaits <- NoWaits
SPECIFICATION GroupSpec
INVARIANTS ParentOutlivesChildren
CHECK_DEADLOCK FALSE

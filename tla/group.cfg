CONSTANTS
  r = r  a = a  b = b
  WD = {r, a, b}
  Root = r
  NoWD = NoWD
  Threads = 2
  MaxWaits <- MCWaits
SPECIFICATION GroupFairSpec
INVARIANTS NoLostWakeUp DOWaitOutlivesSignal GroupInv
PROPERTIES TaskWaitDrains WaitersResume AllEnd
CHECK_DEADLOCK FALSE

CONSTANTS
  t1 = t1  t2 = t2  t3 = t3  c1 = c1  w1 = w1
  NoDO = NoDO
  Task = {t1, t2}
  Comm = {c1}
  Wait = {w1}
  BatchValid = {t1}
SYMMETRY MCSymmetry
SPECIFICATION DOSpec
INVARIANTS PredecessorsCounted BatchReleaseIsLast HandedOnce DOInv
CHECK_DEADLOCK FALSE

SPECIFICATION IndexingSpec
CONSTANTS
  f = f  w1 = w1  w2 = w2  q1 = q1  q2 = q2
  File = {f}
  Worker = {w1, w2}
  Request = {q1, q2}
  N = 2
  Batches = 2
  MaxFaults = 1
INVARIANTS  IndexedIsSearchable PointsAreFindable
SYMMETRY Symmetry
CHECK_DEADLOCK FALSE

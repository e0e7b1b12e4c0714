SPECIFICATION SafeSpec
CONSTANTS
  Job = {j1, j2}
  Key = {k1}
  Worker = {w1, w2}
  KeyOf <- MCSameKey
  MaxActive = 1
  MaxFaults = 1
  None = None
INVARIANTS
  
  SettledOnce
SYMMETRY Symmetry
CHECK_DEADLOCK FALSE

SPECIFICATION Spec
CONSTANTS
  Group = {g1, g2}
  MaxEntries = 3
  MaxMs = 2
  Margin = 0
  MaxLen = 2
INVARIANTS
  TrimSparesUnfinished
SYMMETRY GroupSymmetry
CHECK_DEADLOCK FALSE

SPECIFICATION Spec
CONSTANTS
  Turn = {t1}
  Edit = {}
  News = {n1}
  Deletes = {}
  MaxFaults = 0
  None = None
INVARIANT NewsArrives
CHECK_DEADLOCK FALSE

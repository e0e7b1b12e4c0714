SPECIFICATION Spec
CONSTANTS
  Turn = {t1, t2}
  Edit = {rename, delete}
  News = {n1}
  Deletes = {delete}
  MaxFaults = 1
  None = None
SYMMETRY Symmetry
INVARIANTS SeqsAreGapFree OneReplyPerTurn NewsPostedOnce
PROPERTY NoLostEdit
CHECK_DEADLOCK FALSE

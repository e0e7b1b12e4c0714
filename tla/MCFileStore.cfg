SPECIFICATION Spec
CONSTANTS
  r1 = r1  r2 = r2  s1 = s1  a = a  b = b
  Request = {r1, r2}
  Space = {s1}
  Key = {a, b}
  N = 3
  SpaceOf <- MCSpaceOf
  Size <- MCSize
  Multipart <- MCMultipart
  MaxSpaceBytes = 3
  MaxFiles = 2
SYMMETRY Symmetry
INVARIANTS   ReadyHasBytes DeletedSpaceStaysEmpty
PROPERTIES DeletedForGood
CHECK_DEADLOCK FALSE

SPECIFICATION Spec
CONSTANTS
  r1 = r1  r2 = r2  w1 = w1  w2 = w2  a1 = a1  b1 = b1  b2 = b2
  Request = {r1, r2}
  Worker = {w1, w2}
  Admin = {a1}
  Body = {b1, b2}
  MaxTries = 2
  MaxChanges = 2
  MaxJobs = 2
  MaxDeliveries = 2
INVARIANTS  OneJobPerKey AnswersAgree JobsSettleOnce
SYMMETRY Symmetry
CHECK_DEADLOCK FALSE

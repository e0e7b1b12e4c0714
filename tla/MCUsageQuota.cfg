SPECIFICATION Spec
CONSTANTS
  t1 = t1  t2 = t2
  workspace = workspace  agent = agent
  Turn = {t1, t2}
  Rule = {workspace, agent}
  Bucket <- MCBucket
  Caps = {0, 1, 2}
  Ttl = 2
  MaxCharge = 2
  MaxFaults = 1
  None = None
INVARIANTS ConsumedIsBilled
PROPERTIES AdmissionsFit SlotsEnd AsksAreAnswered
CHECK_DEADLOCK FALSE

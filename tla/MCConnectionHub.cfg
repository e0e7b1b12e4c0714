SPECIFICATION HubSpec
CONSTANTS
  p1 = p1
  p2 = p2
  s1 = s1
  s2 = s2
  Process = {p1, p2}
  Session = {s1, s2}
  Home <- MCHome
  Cap = 1
  Ttl = 3
  RenewEvery = 1
  QueueSize = 1
  MaxEvents <- MCEvents
  MaxFaults = 1
INVARIANTS LiveWithinCap NoSilentGap NothingLeaks
CHECK_DEADLOCK FALSE

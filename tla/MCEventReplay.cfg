SPECIFICATION ReplaySpec
CONSTANTS
  Event = {1, 2}
  LedgerKeep = 1
  OutboxKeep = 1
  MaxLinger = 1
  MaxLen = 2
  MaxClock = 2
  MaxEntries = 3
  MaxLosses = 1
  MaxRuns = 1
INVARIANTS  RunRecovers
 
CHECK_DEADLOCK FALSE

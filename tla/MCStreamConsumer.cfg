SPECIFICATION Spec
CONSTANTS
  NoOne = NoOne
  Consumer = {c1, c2}
  Event = {1, 2}
  NumEntries = 3
  EventOf <- MCEvents
  SubjectOf <- MCSubjects
  KindOf <- MCKinds
  Cuttable = {1}
  BatchCount = 1
  Concurrency = 2
  MaxDeliveries = 2
  HandlerTicks = 1
  StaleIdle = 3
  MaxFaults = 1
INVARIANTS EffectAtMostOnce   SubjectsInOrder
PROPERTIES  EntriesSettle
CHECK_DEADLOCK FALSE

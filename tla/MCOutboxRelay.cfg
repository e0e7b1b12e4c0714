SPECIFICATION Spec
CONSTANTS
  Event <- MCEvent
  Binding = {b1}
  BatchSize = 2
  PollInterval = 2
  MaxBackoff = 3
  MaxFaults = 2
INVARIANTS
  PublishedIsOnStream
  DuplicatesNeedFaults
  CausesFirst
PROPERTIES
  
  ImplementsDelivery
CHECK_DEADLOCK FALSE

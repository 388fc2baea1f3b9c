SPECIFICATION ConnectorSpec
CONSTANTS
  MaxAsks = 3
  MaxBus = 2
  MaxProcs = 3
INVARIANTS OwnAnswer
CHECK_DEADLOCK FALSE

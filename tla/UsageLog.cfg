SPECIFICATION FairSpec
CONSTANTS
  MaxQueue = 3
  FlushBatch = 2
  MaxRows = 6
  Faults = {"database", "crash", "close"}
INVARIANTS TypeOK NoRowTwice AccountsForEveryRow
PROPERTIES ImplementsLog QueueDrains
CHECK_DEADLOCK FALSE

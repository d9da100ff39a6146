CONSTANTS
  Capacity = 4
  MaxBatch = 3
  LastMark = 3
SPECIFICATION Spec
INVARIANTS TypeOK InOrderOnce
PROPERTY Flushed
CHECK_DEADLOCK FALSE

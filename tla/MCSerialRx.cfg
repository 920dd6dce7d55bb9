CONSTANTS
  Driver = {"interrupt", "idle", "callbacks"}
  bufsz = 4
  MaxBytes = 12
CHECK_DEADLOCK FALSE
SPECIFICATION RxSpec
INVARIANTS
  NothingLost
PROPERTIES
  ReadInOrder

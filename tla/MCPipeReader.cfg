SPECIFICATION FairSpec
CONSTANTS
  MaxReaders = 3
  MaxBytes = 4
  ChanCap = 1
  BufCap = 2
  ReadTimeout = TRUE
  CanUnplug = TRUE
INVARIANTS
  TypeOK
  Lossless
PROPERTIES
  CancelStops
  Delivery
  CancelledReadsOnce
  StreamSpec
CHECK_DEADLOCK FALSE

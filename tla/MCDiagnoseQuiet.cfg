SPECIFICATION DiagnoseSpec
CONSTANTS
  MaxReaders = 3
  MaxBytes = 4
  ChanCap = 4
  BufCap = 2
  ReadTimeout = TRUE
  CanUnplug = FALSE
  NConfigs = 2
  Devices <- FirstOnly
  MayReject = {}
  Quiet = TRUE
  Prompt = TRUE
  CanHang = FALSE
  LateWrites = FALSE
  CanInterrupt = FALSE
INVARIANTS
  CountMatches
CHECK_DEADLOCK FALSE
